---- MODULE Spec2Model ----
(***************************************************************************)
(* ConverterTool Excel Add-in: the value mapper (MappingProcessor.ts), the *)
(* template renderer (NunjucksRenderer.ts) and the orchestrator            *)
(* (DataOrchestrator.ts) as state machines.                                *)
(*                                                                         *)
(* JavaScript values are tagged records [t, v]; v is always the string     *)
(* form of the value, so that values of different types can be compared.   *)
(* Strings are TLA+ strings; objects are functions from property names to  *)
(* values, and row objects live in a heap so that aliasing is visible.     *)
(***************************************************************************)
EXTENDS Integers, Sequences, FiniteSets, TLC

VARIABLES
  heap,      \* row objects by reference (index): the source rows first, then copies
  rows0,     \* the content of the source rows when they were handed out
  mcall,     \* the last call of the value mapper: operation and arguments
  mret       \* what that call returned: row references, per table

mapVars == <<heap, rows0, mcall, mret>>

VARIABLES
  rcall,     \* the renderer call in progress or just finished: operation, arguments
  rret,      \* its outcome: returned value or thrown error, and the outputs it rendered
  rprev      \* the renderOutput call made before it on the same output definition

renVars == <<rcall, rret, rprev>>

VARIABLES
  tpl,       \* the AddInTemplate the orchestrator is called with
  host,      \* the workbook: its tables and named ranges
  clock,     \* wall-clock time in seconds
  ocall,     \* the orchestrator call in flight: operation and arguments
  pc,        \* where that call is: idle, reading, finish, done
  step,      \* the host read the call waits for (index into its reads)
  cglobals,  \* the globals read so far
  cdata,     \* the table rows read so far
  builds,    \* context builds started by the call
  oret,      \* the outcome of the call
  reads,     \* the host reads the call has completed, with what each one saw
  prev       \* the context the preceding buildContext call returned

orchVars == <<tpl, host, clock, ocall, pc, step, cglobals, cdata, builds, oret,
              reads, prev>>

VARIABLES
  appTemplate,  \* App: the template state, null or an AddInTemplate
  appTables,    \* App: the tables state, the TableInfo list the Data tab loaded
  selectedTab,  \* App: the tab whose component is mounted
  outputsTab,   \* the state of the mounted OutputsTab component, with its timer
  previewTab,   \* the state of the mounted PreviewTab component
  loads,        \* the loadPreview calls awaiting previewOutput
  exportTab,    \* the state of the ExportTab component and of its handleGenerate
  uiLog         \* the last handler that ran, and what the user did so far

uiVars == <<appTemplate, appTables, selectedTab, outputsTab, previewTab, loads, exportTab, uiLog>>

vars == <<heap, rows0, mcall, mret, rcall, rret, rprev,
          tpl, host, clock, ocall, pc, step, cglobals, cdata, builds, oret,
          reads, prev,
          appTemplate, appTables, selectedTab, outputsTab, previewTab, loads, exportTab, uiLog>>

\* The state of the modules a specification does not exercise
NoOp == [op |-> "none"]
IdleMap == heap = <<>> /\ rows0 = <<>> /\ mcall = NoOp /\ mret = NoOp
IdleRen == rcall = NoOp /\ rret = NoOp /\ rprev = NoOp
IdleOrch ==
  /\ tpl = NoOp /\ host = NoOp /\ clock = 0 /\ ocall = NoOp /\ pc = "idle"
  /\ step = 0 /\ cglobals = NoOp /\ cdata = NoOp /\ builds = 0 /\ oret = NoOp
  /\ reads = <<>> /\ prev = NoOp
IdleUI ==
  /\ appTemplate = NoOp /\ appTables = <<>> /\ selectedTab = "data" /\ outputsTab = NoOp
  /\ previewTab = NoOp /\ loads = <<>> /\ exportTab = NoOp /\ uiLog = NoOp

----------------------------------------------------------------------------
(* JavaScript values *)

Undefined == [t |-> "undefined", v |-> ""]
Null == [t |-> "null", v |-> ""]
Str(s) == [t |-> "string", v |-> s]
Num(s) == [t |-> "number", v |-> s]
Bool(s) == [t |-> "boolean", v |-> s]
Fn(s) == [t |-> "function", v |-> s]

\* String(value) of a string, number or boolean cell: the tag is dropped, so the
\* number 1 and the string "1" name the same key.
String(value) ==
  IF value.t = "function" THEN "function " \o value.v \o "() { [native code] }"
  ELSE IF value.t = "null" THEN "null"
  ELSE IF value.t = "undefined" THEN "undefined"
  ELSE value.v

\* Property names every plain object ({} or JSON.parse output) inherits from
\* Object.prototype; reading one of them yields the inherited member.
ObjectPrototypeKeys ==
  {"constructor", "toString", "valueOf", "hasOwnProperty", "isPrototypeOf",
   "propertyIsEnumerable", "toLocaleString", "__proto__"}

\* obj[key] on a plain object: own property, else inherited member, else undefined.
GetProp(obj, key) ==
  IF key \in DOMAIN obj THEN obj[key]
  ELSE IF key \in ObjectPrototypeKeys THEN Fn(key)
  ELSE Undefined

\* obj[key] = value on a plain object
SetProp(obj, key, value) == (key :> value) @@ obj

EmptyObject == [k \in {} |-> Undefined]

----------------------------------------------------------------------------
(* MappingProcessor.ts *)

MaxRows == 2
MaxRules == 2

Columns == {"c", "d", "e"}
OutputFields == {"d", "e"}
CellValues == {Null, Str("A"), Num("1"), Str("constructor")}

\* A row read from the host: column d always holds "B", column c is absent or
\* holds one of the cell values.
RowSet ==
  {("d" :> Str("B"))} \cup {("c" :> x) @@ ("d" :> Str("B")) : x \in CellValues}

\* The lookup table of the rules: a string key, a key that a number cell
\* stringifies to, and a key for a value the table itself produces
LookupTables == {("A" :> Str("X")) @@ ("1" :> Num("7")) @@ ("X" :> Str("Y"))}

\* Rules from a column to another field
Rules ==
  {m \in [column : Columns, outputField : OutputFields, map : LookupTables,
          default : {Str("dflt")}] : m.column # m.outputField}

SeqsUpTo(S, n) == UNION {[1..k -> S] : k \in 0..n}

RuleLists == SeqsUpTo(Rules, MaxRules)

\* An optional rule list: tableMappings[key] and valueMappings may be undefined
MissingMappings == [defined |-> FALSE, items |-> <<>>]
Mappings(list) == [defined |-> TRUE, items |-> list]

\* const mappedRow = { ...row }: a new object with the row's own properties
AliasRow(h, r) == [heap |-> h, ref |-> r]
ShallowCopy(h, r) == [heap |-> Append(h, h[r]), ref |-> Len(h) + 1]

\* The value one rule writes for a row (lines 27-47)
RuleValue(row, mapping) ==
  LET sourceValue == GetProp(row, mapping.column)
  IN IF sourceValue = Null \/ sourceValue = Undefined
     THEN mapping.default
     ELSE LET mappedValue == GetProp(mapping.map, String(sourceValue))
          IN IF mappedValue # Undefined THEN mappedValue ELSE mapping.default

\* const sourceValue = mappedRow[column], were the copy read instead
SourceRowCopy(h, r, m) == h[m]

\* const sourceValue = row[column]: the row a rule reads is the input row r,
\* not its copy m
SourceRow(h, r, m) == h[r]

\* for (const mapping of mappings): reads row r, writes the copy m
RECURSIVE ApplyRulesBackwards(_, _, _, _, _)
ApplyRulesBackwards(h, r, m, mappings, i) ==
  IF i > Len(mappings) THEN h
  ELSE LET j == Len(mappings) + 1 - i
           value == RuleValue(h[r], mappings[j])
           h2 == [h EXCEPT ![m] = SetProp(h[m], mappings[j].outputField, value)]
       IN ApplyRulesBackwards(h2, r, m, mappings, i + 1)

RECURSIVE ApplyRules(_, _, _, _, _)
ApplyRules(h, r, m, mappings, i) ==
  IF i > Len(mappings) THEN h
  ELSE LET value == RuleValue(SourceRow(h, r, m), mappings[i])
           h2 == [h EXCEPT ![m] = SetProp(h[m], mappings[i].outputField, value)]
       IN ApplyRules(h2, r, m, mappings, i + 1)

\* rows.map((row) => ...)
RECURSIVE MapRows(_, _, _, _, _)
MapRows(h, rows, mappings, i, acc) ==
  IF i > Len(rows) THEN [heap |-> h, rows |-> acc]
  ELSE LET c == ShallowCopy(h, rows[i])
           h2 == ApplyRules(c.heap, rows[i], c.ref, mappings, 1)
       IN MapRows(h2, rows, mappings, i + 1, Append(acc, c.ref))

applyMappings(h, rows, mappings) ==
  IF ~mappings.defined \/ Len(mappings.items) = 0
  THEN [heap |-> h, rows |-> rows]
  ELSE MapRows(h, rows, mappings.items, 1, <<>>)

\* Table keys in the insertion order of tablesData
TableKeys == <<"T1", "T2">>

\* tableMappings[tableKey]: undefined for a key without rules
MappingsOf(tableMappings, tableKey) ==
  IF tableKey \in DOMAIN tableMappings THEN tableMappings[tableKey] ELSE MissingMappings

\* for (const [tableKey, rows] of Object.entries(tablesData)); keys are the
\* keys of tablesData in insertion order
RECURSIVE MapTables(_, _, _, _, _, _)
MapTables(h, keys, tablesData, tableMappings, i, result) ==
  IF i > Len(keys) THEN [heap |-> h, data |-> result]
  ELSE LET tableKey == keys[i]
           rows == tablesData[tableKey]
           mappings == MappingsOf(tableMappings, tableKey)
           r == IF mappings.defined
                THEN applyMappings(h, rows, mappings)
                ELSE [heap |-> h, rows |-> rows]
       IN MapTables(r.heap, keys, tablesData, tableMappings, i + 1,
                    SetProp(result, tableKey, r.rows))

applyMappingsToTables(h, keys, tablesData, tableMappings) ==
  MapTables(h, keys, tablesData, tableMappings, 1, EmptyObject)

\* The source rows as their callers hold them: references 1..n into the heap
SourceRefs == [i \in 1..Len(rows0) |-> i]
SourceHeap == SubSeq(heap, 1, Len(rows0))
NoCall == [op |-> "none", caller |-> "none",
           tablesData |-> [k \in {"T1", "T2"} |-> <<>>],
           tableMappings |-> [k \in {"T1", "T2"} |-> MissingMappings]]

InitMap ==
  /\ heap \in SeqsUpTo(RowSet, MaxRows)
  /\ rows0 = heap
  /\ mcall = NoCall
  /\ mret = [k \in {"T1", "T2"} |-> <<>>]
  /\ IdleRen
  /\ IdleOrch
  /\ IdleUI

\* Caller A, and after A's call a second caller B, map the shared source rows,
\* each with a rule list of its own; A's copies are then no longer referenced.
ApplyMappings ==
  /\ mcall.caller # "B"
  /\ mcall.op # "applyMappingsToTables"
  /\ \E mappings \in {MissingMappings} \cup {Mappings(l) : l \in RuleLists} :
    LET r == applyMappings(SourceHeap, SourceRefs, mappings)
    IN /\ heap' = r.heap
       /\ mret' = [k \in {"T1", "T2"} |-> IF k = "T1" THEN r.rows ELSE <<>>]
       /\ mcall' = [op |-> "applyMappings",
                    caller |-> IF mcall.caller = "none" THEN "A" ELSE "B",
                    tablesData |-> [k \in {"T1", "T2"} |->
                                      IF k = "T1" THEN SourceRefs ELSE <<>>],
                    tableMappings |-> [k \in {"T1", "T2"} |->
                                      IF k = "T1" THEN mappings ELSE MissingMappings]]
       /\ UNCHANGED <<rows0, renVars, orchVars, uiVars>>

\* A caller maps the freshly read rows as two tables: T1 holds the first source
\* row, T2 the others; the tables in `mapped` carry the rule list, the others
\* none.
ApplyMappingsToTables ==
  /\ mcall.op = "none"
  /\ \E l \in RuleLists, mapped \in SUBSET {"T1", "T2"} :
    LET n == Len(rows0)
        tablesData == [k \in {"T1", "T2"} |->
                         IF k = "T1" THEN SubSeq(SourceRefs, 1, IF n = 0 THEN 0 ELSE 1)
                         ELSE SubSeq(SourceRefs, 2, n)]
        tableMappings == [k \in {"T1", "T2"} |->
                            IF k \in mapped THEN Mappings(l) ELSE MissingMappings]
        r == applyMappingsToTables(SourceHeap, TableKeys, tablesData, tableMappings)
    IN /\ heap' = r.heap
       /\ mret' = r.data
       /\ mcall' = [op |-> "applyMappingsToTables", caller |-> "A",
                    tablesData |-> tablesData, tableMappings |-> tableMappings]
       /\ UNCHANGED <<rows0, renVars, orchVars, uiVars>>

NextMap == ApplyMappings \/ ApplyMappingsToTables

SpecMap == InitMap /\ [][NextMap]_vars

----------------------------------------------------------------------------
(* Claims about the value mapper *)

\* The rule list a table was mapped with in the last call, <<>> if none
RulesOf(k) == mcall.tableMappings[k].items

\* The last rule of a list that writes field f (0 if none)
LastRuleFor(rules, f) ==
  LET S == {j \in 1..Len(rules) : rules[j].outputField = f}
  IN IF S = {} THEN 0 ELSE CHOOSE j \in S : \A k \in S : k <= j

\* What the mapping contract promises for one rule on one row: the default for
\* an absent, null or undefined source, the table entry for a key of the table,
\* the default for any other key.
ContractValue(row, rule) ==
  IF rule.column \notin DOMAIN row THEN rule.default
  ELSE IF row[rule.column] \in {Null, Undefined} THEN rule.default
  ELSE IF String(row[rule.column]) \in DOMAIN rule.map
       THEN rule.map[String(row[rule.column])]
       ELSE rule.default

\* C1: after applyMappings with a non-empty rule list, every result row holds in
\* each destination field the contract value of the rule that wrote it: the
\* default for an absent/null source, the table entry for a key of the table,
\* the default for a key that is not in the table.
C1_MappedOrDefault ==
  mcall.op = "applyMappings" /\ Len(RulesOf("T1")) > 0 =>
    \A i \in 1..Len(mret["T1"]) : \A j \in 1..Len(RulesOf("T1")) :
      LET rule == RulesOf("T1")[j]
      IN LastRuleFor(RulesOf("T1"), rule.outputField) = j =>
           /\ rule.outputField \in DOMAIN heap[mret["T1"][i]]
           /\ heap[mret["T1"][i]][rule.outputField] = ContractValue(rows0[i], rule)

\* C1 restricted to source values that are not names of Object.prototype members
C1_OwnKeysOnly ==
  mcall.op = "applyMappings" /\ Len(RulesOf("T1")) > 0 =>
    \A i \in 1..Len(mret["T1"]) : \A j \in 1..Len(RulesOf("T1")) :
      LET rule == RulesOf("T1")[j]
          src == GetProp(rows0[i], rule.column)
      IN /\ LastRuleFor(RulesOf("T1"), rule.outputField) = j
         /\ String(src) \notin ObjectPrototypeKeys
         => heap[mret["T1"][i]][rule.outputField] = ContractValue(rows0[i], rule)

\* C2: no call of the mapper changes a source row, whatever calls came before;
\* when a table is mapped with a non-empty rule list its result rows are new
\* objects, none of them a source row.
C2_InputNotMutated ==
  /\ Len(heap) >= Len(rows0)
  /\ \A i \in 1..Len(rows0) : heap[i] = rows0[i]
  /\ \A k \in {"T1", "T2"} :
       Len(RulesOf(k)) > 0 =>
         \A i \in 1..Len(mret[k]) : mret[k][i] > Len(rows0)

\* A mapping pass has written a derived field into a copy of a source row
C2_Witness ==
  /\ mcall.op = "applyMappingsToTables"
  /\ \E k \in {"T1", "T2"} : \E i \in 1..Len(mret[k]) :
       /\ Len(RulesOf(k)) > 0
       /\ heap[mret[k][i]] # rows0[mcall.tablesData[k][i]]

\* C3: rules apply in declaration order: each destination field of a result row
\* holds the value of the last rule declared for that field, also when the field
\* already exists in the source row.
C3_LastRuleWins ==
  mcall.op = "applyMappings" =>
    \A i \in 1..Len(mret["T1"]) : \A f \in OutputFields :
      LET j == LastRuleFor(RulesOf("T1"), f)
      IN j > 0 => heap[mret["T1"][i]][f] = RuleValue(rows0[i], RulesOf("T1")[j])

\* Two rules with different values share a destination field that the source
\* row already has
C3_Witness ==
  /\ mcall.op = "applyMappings"
  /\ Len(RulesOf("T1")) = 2
  /\ Len(mret["T1"]) > 0
  /\ RulesOf("T1")[1].outputField = "d"
  /\ RulesOf("T1")[2].outputField = "d"
  /\ RuleValue(rows0[1], RulesOf("T1")[1]) # RuleValue(rows0[1], RulesOf("T1")[2])
  /\ heap[mret["T1"][1]]["d"] # rows0[1]["d"]

----------------------------------------------------------------------------
(* NunjucksRenderer.ts *)

MaxOutputs == 3

\* A template string is a sequence of parts: literal text and the constructs
\* of the template language that the starter templates use.
Lit(s) == [k |-> "lit", s |-> s]              \* literal text
GlobalRef(n) == [k |-> "globals", s |-> n]    \* {{ globals.n }}
NowRef == [k |-> "now", s |-> ""]             \* {{ currentdatetime }}
RowCount(t) == [k |-> "rows", s |-> t]        \* {{ data.t | length }}
MethodCall(t) == [k |-> "call", s |-> t]      \* {{ data.t.length.toString() }}
Unclosed == [k |-> "syntax", s |-> ""]        \* {{ without its closing braces

\* The outcome of an evaluation: a string, or a thrown error with its message
Ok(s) == [ok |-> TRUE, s |-> s]
Fail(s) == [ok |-> FALSE, s |-> s]

SyntaxMessage == "unexpected end of file"
CallMessage(t) == "Unable to call data." \o t \o ".length.toString, which is undefined or falsey"

Digits == "0123456789"
NumStr(n) == SubSeq(Digits, n + 1, n + 1)

\* What an expression's value prints as: nothing for undefined and null
Display(value) == IF value = Undefined \/ value = Null THEN "" ELSE String(value)

\* context.data[t] for a context that may have no data
TableOf(ctx, t) ==
  IF "data" \in DOMAIN ctx /\ t \in DOMAIN ctx.data THEN Mappings(ctx.data[t])
  ELSE MissingMappings

\* One part evaluated against a context (throwOnUndefined: false)
RenderPart(part, ctx) ==
  CASE part.k = "lit" -> Ok(part.s)
    [] part.k = "globals" ->
         Ok(IF "globals" \in DOMAIN ctx THEN Display(GetProp(ctx.globals, part.s)) ELSE "")
    [] part.k = "now" ->
         Ok(IF "currentdatetime" \in DOMAIN ctx THEN ctx.currentdatetime ELSE "")
    [] part.k = "rows" ->
         Ok(IF TableOf(ctx, part.s).defined
            THEN NumStr(Len(TableOf(ctx, part.s).items)) ELSE "0")
    [] part.k = "call" ->
         IF TableOf(ctx, part.s).defined
         THEN Ok(NumStr(Len(TableOf(ctx, part.s).items)))
         ELSE Fail(CallMessage(part.s))
    [] OTHER -> Fail(SyntaxMessage)

RECURSIVE RenderFrom(_, _, _, _)
RenderFrom(template, ctx, i, acc) ==
  IF i > Len(template) THEN Ok(acc)
  ELSE LET r == RenderPart(template[i], ctx)
       IN IF r.ok THEN RenderFrom(template, ctx, i + 1, acc \o r.s) ELSE r

\* env.renderString(template, context): the template is compiled, then evaluated
renderString(template, ctx) ==
  IF \E i \in 1..Len(template) : template[i].k = "syntax"
  THEN Fail(SyntaxMessage)
  ELSE RenderFrom(template, ctx, 1, "")

render(template, context) == renderString(template, context)

\* resolveFilename: the filename template sees globals and currentdatetime only
FullContext(context) == context
RestrictedContext(context) ==
  [globals |-> context.globals, currentdatetime |-> context.currentdatetime]

resolveFilename(filename, context) == renderString(filename, RestrictedContext(context))

\* String.prototype.toLowerCase on the letters A-Z
UpperLetters == "ABCDEFGHIJKLMNOPQRSTUVWXYZ"
LowerLetters == "abcdefghijklmnopqrstuvwxyz"
CharAt(s, i) == SubSeq(s, i, i)
LowerChar(c) ==
  IF \E i \in 1..Len(UpperLetters) : CharAt(UpperLetters, i) = c
  THEN CharAt(LowerLetters, CHOOSE i \in 1..Len(UpperLetters) : CharAt(UpperLetters, i) = c)
  ELSE c

RECURSIVE LowerFrom(_, _)
LowerFrom(s, i) ==
  IF i > Len(s) THEN "" ELSE LowerChar(CharAt(s, i)) \o LowerFrom(s, i + 1)

toLowerCase(s) == LowerFrom(s, 1)

\* filename.split(".").pop(): the text after the last ".", the whole string if
\* there is none
DotPositions(s) == {i \in 1..Len(s) : CharAt(s, i) = "."}
SplitPop(s) ==
  IF DotPositions(s) = {} THEN s
  ELSE LET last == CHOOSE i \in DotPositions(s) : \A j \in DotPositions(s) : j <= i
       IN SubSeq(s, last + 1, Len(s))

mimeTypes ==
  ("json" :> Str("application/json")) @@ ("xml" :> Str("application/xml")) @@
  ("csv" :> Str("text/csv")) @@ ("txt" :> Str("text/plain")) @@
  ("html" :> Str("text/html")) @@ ("md" :> Str("text/markdown")) @@
  ("yaml" :> Str("text/yaml")) @@ ("yml" :> Str("text/yaml"))

\* JavaScript truthiness of a value
Truthy(value) ==
  /\ value # Undefined
  /\ value # Null
  /\ ~(value.t = "string" /\ value.v = "")

\* mimeTypes[ext || ""] || "text/plain"
getMimeType(filename) ==
  LET ext == toLowerCase(SplitPop(filename))
      found == GetProp(mimeTypes, ext)
  IN IF Truthy(found) THEN found ELSE Str("text/plain")

\* What a call does: returns a value or throws; `rendered` lists the output
\* definitions whose rendering was started, in order.
Return(value, rendered) ==
  [threw |-> FALSE, message |-> "", value |-> value, rendered |-> rendered]
Throw(message, rendered) ==
  [threw |-> TRUE, message |-> message, value |-> <<>>, rendered |-> rendered]

renderOutputContentFirst(output, context) ==
  LET content == render(output.template, context)
  IN IF ~content.ok THEN Throw(content.s, <<output>>)
     ELSE LET filename == resolveFilename(output.filename, context)
          IN IF ~filename.ok THEN Throw(filename.s, <<output>>)
             ELSE Return([name |-> filename.s, filename |-> filename.s,
                          content |-> content.s,
                          mimeType |-> getMimeType(filename.s)], <<output>>)

renderOutput(output, context) ==
  LET filename == resolveFilename(output.filename, context)
  IN IF ~filename.ok THEN Throw(filename.s, <<output>>)
     ELSE LET content == render(output.template, context)
          IN IF ~content.ok THEN Throw(content.s, <<output>>)
             ELSE Return([name |-> filename.s, filename |-> filename.s,
                          content |-> content.s,
                          mimeType |-> getMimeType(filename.s)], <<output>>)

\* `Error rendering output "${name}": ${error.message}`
WrapMessage(name, message) == "Error rendering output \"" \o name \o "\": " \o message

\* for (const [name, output] of Object.entries(outputs)): `outputs` is the
\* sequence of the map's entries in their enumeration order
RECURSIVE RenderEntriesBestEffort(_, _, _, _, _)
RenderEntriesBestEffort(outputs, context, i, results, rendered) ==
  IF i > Len(outputs) THEN Return(results, rendered)
  ELSE LET r == renderOutput(outputs[i].output, context)
       IN IF r.threw
          THEN RenderEntriesBestEffort(outputs, context, i + 1, results,
                                       rendered \o r.rendered)
          ELSE RenderEntriesBestEffort(outputs, context, i + 1,
                 Append(results, [r.value EXCEPT !.name = outputs[i].name]),
                 rendered \o r.rendered)

RECURSIVE RenderEntriesKeepName(_, _, _, _, _)
RenderEntriesKeepName(outputs, context, i, results, rendered) ==
  IF i > Len(outputs) THEN Return(results, rendered)
  ELSE LET r == renderOutput(outputs[i].output, context)
       IN IF r.threw
          THEN Throw(WrapMessage(outputs[i].name, r.message), rendered \o r.rendered)
          ELSE RenderEntriesKeepName(outputs, context, i + 1,
                 Append(results, r.value), rendered \o r.rendered)

RECURSIVE RenderEntries(_, _, _, _, _)
RenderEntries(outputs, context, i, results, rendered) ==
  IF i > Len(outputs) THEN Return(results, rendered)
  ELSE LET r == renderOutput(outputs[i].output, context)
       IN IF r.threw
          THEN Throw(WrapMessage(outputs[i].name, r.message), rendered \o r.rendered)
          ELSE RenderEntries(outputs, context, i + 1,
                 Append(results, [r.value EXCEPT !.name = outputs[i].name]),
                 rendered \o r.rendered)

renderAllOutputs(outputs, context) == RenderEntries(outputs, context, 1, <<>>, <<>>)

\* try { renderString(template, {data: {}, globals: {}}) } catch
validateTemplateNoCatch(template) ==
  LET r == renderString(template, [data |-> EmptyObject, globals |-> EmptyObject])
  IN IF r.ok THEN Return([valid |-> TRUE, error |-> ""], <<>>)
     ELSE Throw(r.s, <<>>)

validateTemplate(template) ==
  LET r == renderString(template, [data |-> EmptyObject, globals |-> EmptyObject])
  IN IF r.ok THEN Return([valid |-> TRUE, error |-> ""], <<>>)
     ELSE Return([valid |-> FALSE, error |-> r.s], <<>>)

----------------------------------------------------------------------------
(* Calls of the renderer *)

GlobalsSet ==
  {EmptyObject, ("project" :> Str("Acme")), ("project" :> Str("data.XML"))}
DataSet == {EmptyObject, ("T1" :> <<>>), ("T1" :> <<("d" :> Str("B"))>>)}
Timestamps == {"2026-01-05_10-00-00", "2026-01-05_10-00-01"}
Contexts == [globals : GlobalsSet, data : DataSet, currentdatetime : Timestamps]

LiteralFilenames ==
  {"out.json", "out.xml", "out.csv", "out.txt", "out.html", "out.md", "out.yaml",
   "out.yml", "out.JSON", "a.b.Csv", "out.bin", "out", "out.", "json",
   "out.constructor", ""}
DynamicParts ==
  {GlobalRef("project"), NowRef, RowCount("T1"), MethodCall("T1"), Unclosed}
FilenameTemplates ==
  {<<Lit(f)>> : f \in LiteralFilenames} \cup
  {<<p, Lit(e)>> : p \in DynamicParts, e \in {".json", ""}}
ContentTemplates ==
  {<<Lit("hello")>>, <<GlobalRef("project")>>, <<Lit("rows: "), RowCount("T1")>>,
   <<MethodCall("T1")>>, <<Unclosed>>, <<Lit("at "), NowRef>>}
OutputConfigs == [filename : FilenameTemplates, template : ContentTemplates]

\* The outputs maps: entries with distinct keys, in enumeration order
OutputKeys == {"k1", "k2", "k3", "k4"}
EntryConfigs ==
  {[filename |-> <<Lit("out.json")>>, template |-> <<Lit("hello")>>],
   [filename |-> <<GlobalRef("project"), Lit(".csv")>>, template |-> <<MethodCall("T1")>>],
   [filename |-> <<Unclosed>>, template |-> <<Lit("hello")>>],
   [filename |-> <<Lit("out.json")>>, template |-> <<Unclosed>>]}
OutputMaps ==
  {m \in SeqsUpTo([name : OutputKeys, output : EntryConfigs], MaxOutputs) :
     \A i, j \in 1..Len(m) : i # j => m[i].name # m[j].name}

InitRen ==
  /\ IdleRen
  /\ IdleMap
  /\ IdleOrch
  /\ IdleUI

RenderOutput ==
  /\ rcall.op = "none"
  /\ \E output \in OutputConfigs, context \in Contexts :
       /\ rcall' = [op |-> "renderOutput", output |-> output, context |-> context]
       /\ rret' = renderOutput(output, context)
  /\ UNCHANGED <<rprev, mapVars, orchVars, uiVars>>

\* The same output definition rendered again, against another context
RenderOutputAgain ==
  /\ rcall.op = "renderOutput"
  /\ rprev.op = "none"
  /\ \E context \in Contexts :
       /\ rcall' = [rcall EXCEPT !.context = context]
       /\ rret' = renderOutput(rcall.output, context)
  /\ rprev' = [op |-> "renderOutput", context |-> rcall.context, ret |-> rret]
  /\ UNCHANGED <<mapVars, orchVars, uiVars>>

RenderAllOutputs ==
  /\ rcall.op = "none"
  /\ \E outputs \in OutputMaps, context \in Contexts :
       /\ rcall' = [op |-> "renderAllOutputs", outputs |-> outputs, context |-> context]
       /\ rret' = renderAllOutputs(outputs, context)
  /\ UNCHANGED <<rprev, mapVars, orchVars, uiVars>>

ValidateTemplate ==
  /\ rcall.op = "none"
  /\ \E template \in FilenameTemplates \cup ContentTemplates :
       /\ rcall' = [op |-> "validateTemplate", template |-> template]
       /\ rret' = validateTemplate(template)
  /\ UNCHANGED <<rprev, mapVars, orchVars, uiVars>>

\* The caller has taken the outcome; the renderer keeps nothing of the call
RendererReturn ==
  /\ rcall.op # "none"
  /\ rcall' = NoOp
  /\ rret' = NoOp
  /\ rprev' = NoOp
  /\ UNCHANGED <<mapVars, orchVars, uiVars>>

NextRen ==
  \/ RenderOutput
  \/ RenderOutputAgain
  \/ RenderAllOutputs
  \/ ValidateTemplate
  \/ RendererReturn

SpecRen == InitRen /\ [][NextRen]_vars

----------------------------------------------------------------------------
(* Claims about the renderer *)

\* s contains sub
Contains(s, sub) ==
  \E i \in 1..(Len(s) + 1) :
    /\ i + Len(sub) - 1 <= Len(s)
    /\ SubSeq(s, i, i + Len(sub) - 1) = sub

\* The entries of the last renderAllOutputs call whose rendering fails
FailingEntries ==
  {i \in 1..Len(rcall.outputs) :
     renderOutput(rcall.outputs[i].output, rcall.context).threw}
FirstFailing == CHOOSE i \in FailingEntries : \A j \in FailingEntries : i <= j

\* C4: renderAllOutputs is fail-fast: when the rendering of an output fails the
\* call throws, the message holds that output's key and the underlying message,
\* no result list is returned and no later output is rendered.
C4_FailFast ==
  rcall.op = "renderAllOutputs" =>
    LET failing == FailingEntries
        first == CHOOSE i \in failing : \A j \in failing : i <= j
        underlying == renderOutput(rcall.outputs[first].output, rcall.context).message
    IN failing # {} =>
         /\ rret.threw
         /\ rret.value = <<>>
         /\ Contains(rret.message, rcall.outputs[first].name)
         /\ Contains(rret.message, underlying)
         /\ Len(rret.rendered) = first
         /\ \A j \in 1..first : rret.rendered[j] = rcall.outputs[j].output

\* The first output rendered, the second failed, and a third was left undone
C4_Witness ==
  /\ rcall.op = "renderAllOutputs"
  /\ Len(rcall.outputs) = 3
  /\ FailingEntries # {}
  /\ FirstFailing = 2
  /\ rret.threw
  /\ Len(rret.rendered) = 2

C6_FilenameIgnoresData ==
  /\ rcall.op = "renderOutput" /\ rprev.op = "renderOutput"
     /\ rcall.context.globals = rprev.context.globals
     /\ rcall.context.currentdatetime = rprev.context.currentdatetime
     /\ ~rret.threw /\ ~rprev.ret.threw
     => /\ rret.value.filename = rprev.ret.value.filename
        /\ rret.value.mimeType = rprev.ret.value.mimeType
  /\ rcall.op = "renderOutput"
     /\ ~renderString(rcall.output.filename,
                      [globals |-> rcall.context.globals,
                       currentdatetime |-> rcall.context.currentdatetime]).ok
     => /\ rret.threw
        /\ rret.message =
             renderString(rcall.output.filename,
                          [globals |-> rcall.context.globals,
                           currentdatetime |-> rcall.context.currentdatetime]).s

\* An output whose filename template refers to table data was rendered against
\* two contexts that differ in that table only
C6_Witness ==
  /\ rcall.op = "renderOutput" /\ rprev.op = "renderOutput"
  /\ rcall.output.filename = <<RowCount("T1"), Lit(".json")>>
  /\ rcall.context.globals = rprev.context.globals
  /\ rcall.context.currentdatetime = rprev.context.currentdatetime
  /\ rcall.context.data = ("T1" :> <<("d" :> Str("B"))>>)
  /\ rprev.context.data = EmptyObject
  /\ ~rret.threw /\ ~rprev.ret.threw
  /\ rret.value.content # rprev.ret.value.content

\* The MIME type the extension table promises for a filename: the entry of the
\* lower-cased text after the final ".", text/plain for an unknown extension
\* and for a filename without "."
TableMime(filename) ==
  IF DotPositions(filename) # {} /\ toLowerCase(SplitPop(filename)) \in DOMAIN mimeTypes
  THEN mimeTypes[toLowerCase(SplitPop(filename))]
  ELSE Str("text/plain")

\* C8: the MIME type of a rendered output is the extension table's entry for the
\* lower-cased text after the final "." of the resolved filename, and text/plain
\* when that extension is unknown or the filename has no ".".
C8_MimeFromExtension ==
  rcall.op = "renderOutput" /\ ~rret.threw =>
    rret.value.mimeType = TableMime(rret.value.filename)

\* C8 for the filenames that have a "." and whose extension names no member of
\* Object.prototype
C8_DottedOwnExtensions ==
  rcall.op = "renderOutput" /\ ~rret.threw
  /\ DotPositions(rret.value.filename) # {}
  /\ toLowerCase(SplitPop(rret.value.filename)) \notin ObjectPrototypeKeys
  => rret.value.mimeType = TableMime(rret.value.filename)

----------------------------------------------------------------------------
(* GlobalsService.ts and TableService.ts: reads of the host workbook *)

MaxClock == 2

\* new Date().toISOString() and the YYYY-MM-DD_HH-mm-ss stamp of buildContext,
\* for a clock that counts the seconds after 10:00:00
IsoString(c) == "2026-01-05T10:00:0" \o NumStr(c) \o ".000Z"
Timestamp(c) == "2026-01-05_10-00-0" \o NumStr(c)

\* parseFloat of a string: its leading digits, NaN without any
RECURSIVE LeadingDigits(_, _)
LeadingDigits(s, i) ==
  IF i > Len(s) \/ ~(\E d \in 1..Len(Digits) : CharAt(Digits, d) = CharAt(s, i))
  THEN ""
  ELSE CharAt(s, i) \o LeadingDigits(s, i + 1)

\* excelDateToISO(serial): the instant `serial` days after 1899-12-30
excelDateToISO(serial) == "1899-12-30T00:00:00.000Z + " \o serial \o " days"

convertValue(value, type) ==
  CASE type = "number" ->
         IF value.t = "number" THEN value
         ELSE IF LeadingDigits(String(value), 1) = "" THEN Num("0")
         ELSE Num(LeadingDigits(String(value), 1))
    [] type = "boolean" ->
         IF value.t = "boolean" THEN value
         ELSE IF toLowerCase(String(value)) \in {"true", "1", "yes"}
              THEN Bool("true") ELSE Bool("false")
    [] type = "date" ->
         IF value.t = "number" THEN Str(excelDateToISO(value.v))
         ELSE Str(String(value))
    [] OTHER -> Str(String(value))

getDefaultForType(type, now) ==
  CASE type = "number" -> Num("0")
    [] type = "boolean" -> Bool("false")
    [] type = "date" -> Str(IsoString(now))
    [] OTHER -> Str("")

\* defaultValue ?? this.getDefaultForType(type)
DefaultOr(defaultValue, type, now) ==
  IF defaultValue # Undefined /\ defaultValue # Null THEN defaultValue
  ELSE getDefaultForType(type, now)

\* A named item whose range cannot be loaded: getRange or the sync throws
Unreadable == [t |-> "error", v |-> "ItemNotFound"]

\* A reading that takes every falsy cell for an empty one
readNamedRangeFalsy(h, rangeName, type, defaultValue, now) ==
  LET ty == IF type = "undefined" THEN "string" ELSE type
  IN IF rangeName \notin DOMAIN h.names \/ h.names[rangeName] = Unreadable
        \/ h.names[rangeName] \in {Null, Undefined, Str(""), Num("0"), Bool("false")}
     THEN DefaultOr(defaultValue, ty, now)
     ELSE convertValue(h.names[rangeName], ty)

\* readNamedRange(rangeName, type = "string", defaultValue) against workbook h
readNamedRange(h, rangeName, type, defaultValue, now) ==
  LET ty == IF type = "undefined" THEN "string" ELSE type
  IN IF rangeName \notin DOMAIN h.names \/ h.names[rangeName] = Unreadable
     THEN DefaultOr(defaultValue, ty, now)
     ELSE LET value == h.names[rangeName]
          IN IF value = Null \/ value = Undefined \/ value = Str("")
             THEN DefaultOr(defaultValue, ty, now)
             ELSE convertValue(value, ty)

\* columnMap[header] if the map renames the header, else the header
MappedHeader(columnMap, header) ==
  IF Truthy(GetProp(columnMap, header)) THEN String(GetProp(columnMap, header))
  ELSE header

\* One body row as an object keyed by the mapped headers (later headers win)
RECURSIVE RowObject(_, _, _, _, _)
RowObject(headers, columnMap, rowValues, i, row) ==
  IF i > Len(headers) THEN row
  ELSE RowObject(headers, columnMap, rowValues, i + 1,
                 SetProp(row, MappedHeader(columnMap, headers[i]), rowValues[i]))

\* readTable(tableName, columnMap): the rows, or a throw when the table is missing
readTable(h, tableName, columnMap) ==
  IF tableName \notin DOMAIN h.tables
  THEN MissingMappings
  ELSE LET t == h.tables[tableName]
       IN Mappings([i \in 1..Len(t.body) |->
                      RowObject(t.headers, columnMap, t.body[i], 1, EmptyObject)])

\* One turn of the loop of readTables: the rows, [] when the read failed
ReadTableAbort(h, config) ==
  LET tableData == readTable(h, config.tableName, config.columnMap)
  IN [threw |-> ~tableData.defined, rows |-> tableData.items]
ReadTableOrEmpty(h, config) ==
  LET tableData == readTable(h, config.tableName, config.columnMap)
  IN [threw |-> FALSE, rows |-> IF tableData.defined THEN tableData.items ELSE <<>>]

----------------------------------------------------------------------------
(* DataOrchestrator.ts *)

\* template.globals is optional
MissingGlobals == [defined |-> FALSE, items |-> <<>>]
GlobalConfigs(list) == [defined |-> TRUE, items |-> list]

MapCode ==
  [column |-> "c", outputField |-> "e",
   map |-> ("A" :> Str("X")) @@ ("1" :> Num("7")), default |-> Str("dflt")]
TableT1 == [name |-> "T1", columnMap |-> EmptyObject, valueMappings |-> Mappings(<<MapCode>>)]
TableT2 == [name |-> "T2", columnMap |-> ("c" :> Str("code")), valueMappings |-> MissingMappings]
GlobalProject == [name |-> "project", type |-> "string", defaultValue |-> Str("P0")]
GlobalCount == [name |-> "count", type |-> "number", defaultValue |-> Undefined]

GlobalWhen == [name |-> "when", type |-> "date", defaultValue |-> Undefined]

OutputsOne ==
  <<[name |-> "k1", output |-> [filename |-> <<Lit("out.json")>>,
                                template |-> <<Lit("hello")>>]]>>
OutputsOneBad ==
  <<[name |-> "k1", output |-> [filename |-> <<GlobalRef("project"), Lit(".csv")>>,
                                template |-> <<Lit("rows: "), RowCount("T1")>>]],
    [name |-> "k2", output |-> [filename |-> <<Lit("out.xml")>>,
                                template |-> <<Unclosed>>]]>>
OutputsTwo ==
  <<[name |-> "k2", output |-> [filename |-> <<NowRef, Lit(".json")>>,
                                template |-> <<MethodCall("T2")>>]],
    [name |-> "k1", output |-> [filename |-> <<Lit("out.json")>>,
                                template |-> <<GlobalRef("count")>>]]>>
OrchOutputs == {OutputsOne, OutputsOneBad, OutputsTwo}

Template(tables, globals, outputs) ==
  [metadata |-> [name |-> "demo", version |-> "1.0"],
   tables |-> tables, globals |-> globals, outputs |-> outputs]
Templates ==
  {Template(<<TableT1>>, MissingGlobals, OutputsOne),
   Template(<<TableT1>>, GlobalConfigs(<<GlobalProject, GlobalCount>>), OutputsOneBad),
   Template(<<TableT1, TableT2>>, MissingGlobals, OutputsTwo),
   Template(<<TableT2>>, GlobalConfigs(<<GlobalWhen>>), OutputsTwo)}

\* The workbook: each table present or not, the named ranges set or not
HostTables ==
  LET t1 == [headers |-> <<"c", "d">>, body |-> <<<<Str("A"), Str("B")>>>>]
      t2 == [headers |-> <<"c">>, body |-> <<<<Num("1")>>>>]
  IN {EmptyObject, ("T1" :> t1), ("T2" :> t2), ("T1" :> t1) @@ ("T2" :> t2)}
HostNames ==
  {EmptyObject,
   ("project" :> Str("Acme")) @@ ("count" :> Num("7")) @@ ("when" :> Num("46027"))}
Hosts == [tables : HostTables, names : HostNames]

\* The keys previewOutput is asked for: keys of the map and other names
PreviewKeys == {"k1", "k2", "k9", "constructor"}

\* template.outputs[outputName]: the entry's value, an inherited member of the
\* plain object, or undefined
EntryIndex(outputs, key) ==
  LET S == {i \in 1..Len(outputs) : outputs[i].name = key}
  IN IF S = {} THEN 0 ELSE CHOOSE i \in S : TRUE
OutputOf(outputs, key) ==
  IF EntryIndex(outputs, key) > 0
  THEN [t |-> "object", v |-> key, output |-> outputs[EntryIndex(outputs, key)].output]
  ELSE IF key \in ObjectPrototypeKeys THEN Fn(key)
  ELSE Undefined

\* The host reads of one buildContext, in the order the code awaits them: the
\* declared globals (readAllGlobals), then the declared tables (readTables)
ReadsOf(t) ==
  [i \in 1..Len(t.globals.items) |-> [kind |-> "global", config |-> t.globals.items[i]]]
  \o [i \in 1..Len(t.tables) |->
        [kind |-> "table",
         config |-> [templateKey |-> t.tables[i].name, tableName |-> t.tables[i].name,
                     columnMap |-> t.tables[i].columnMap]]]

\* The part of the workbook a read looks at: the named item or table, if there
Seen(h, rd) ==
  IF rd.kind = "global"
  THEN [names |-> [n \in DOMAIN h.names \cap {rd.config.name} |-> h.names[n]],
        tables |-> EmptyObject]
  ELSE [names |-> EmptyObject,
        tables |-> [n \in DOMAIN h.tables \cap {rd.config.tableName} |-> h.tables[n]]]
ReadName(rd) == IF rd.kind = "global" THEN rd.config.name ELSE rd.config.tableName

\* The table keys of the data read, in insertion order
RECURSIVE DataKeys(_, _, _)
DataKeys(tables, i, acc) ==
  IF i > Len(tables) THEN acc
  ELSE DataKeys(tables, i + 1,
                IF \E j \in 1..Len(acc) : acc[j] = tables[i].name THEN acc
                ELSE Append(acc, tables[i].name))

\* mappingsConfig[config.name] = config.valueMappings
MappingsConfig(tables) ==
  [k \in {tables[i].name : i \in 1..Len(tables)} |->
     tables[CHOOSE i \in 1..Len(tables) :
              tables[i].name = k /\ \A j \in 1..Len(tables) : tables[j].name = k => j <= i
           ].valueMappings]

\* The rows of all tables laid out as objects of one heap, table after table
RECURSIVE LayOut(_, _, _, _, _)
LayOut(keys, data, i, h, refs) ==
  IF i > Len(keys) THEN [heap |-> h, data |-> refs]
  ELSE LayOut(keys, data, i + 1, h \o data[keys[i]],
              SetProp(refs, keys[i], [j \in 1..Len(data[keys[i]]) |-> Len(h) + j]))

\* data = applyMappingsToTables(data, mappingsConfig), rows by value
MappedData(tables, data) ==
  LET keys == DataKeys(tables, 1, <<>>)
      laid == LayOut(keys, data, 1, <<>>, EmptyObject)
      r == applyMappingsToTables(laid.heap, keys, laid.data, MappingsConfig(tables))
  IN [k \in DOMAIN r.data |-> [j \in 1..Len(r.data[k]) |-> r.heap[r.data[k][j]]]]

\* A context read from the workbook as it is at the moment of the return
RECURSIVE GlobalsNow(_, _, _)
GlobalsNow(items, i, acc) ==
  IF i > Len(items) THEN acc
  ELSE GlobalsNow(items, i + 1,
                  SetProp(acc, items[i].name,
                          readNamedRange(host, items[i].name, items[i].type,
                                         items[i].defaultValue, clock)))
FreshContext ==
  [globals |-> GlobalsNow(tpl.globals.items, 1, EmptyObject),
   data |-> MappedData(tpl.tables,
                       [k \in {tpl.tables[i].name : i \in 1..Len(tpl.tables)} |->
                          ReadTableOrEmpty(host, [tableName |-> k,
                             columnMap |-> (CHOOSE c \in {tpl.tables[i] : i \in 1..Len(tpl.tables)} :
                                              c.name = k).columnMap]).rows]),
   currentdatetime |-> Timestamp(clock)]

\* The context buildContext returns once its reads are done
BuiltContext ==
  [globals |-> cglobals, data |-> MappedData(tpl.tables, cdata),
   currentdatetime |-> Timestamp(clock)]

\* An outcome of the orchestrator, with the context it was rendered against
Outcome(r, context) ==
  [threw |-> r.threw, message |-> r.message, value |-> r.value,
   rendered |-> r.rendered, context |-> context]

\* renderOutput on a value that is no OutputConfig: its filename is undefined
\* and renderString rejects it
renderMember(output, context) ==
  IF output.t = "object" THEN renderOutput(output.output, context)
  ELSE Throw("src must be a string or an object describing the source", <<>>)

InitOrch ==
  /\ tpl \in Templates
  /\ host \in Hosts
  /\ clock = 0
  /\ ocall = NoOp
  /\ pc = "idle"
  /\ step = 0
  /\ cglobals = EmptyObject
  /\ cdata = EmptyObject
  /\ builds = 0
  /\ oret = NoOp
  /\ reads = <<>>
  /\ prev = NoOp
  /\ IdleMap
  /\ IdleRen
  /\ IdleUI

\* const context = await this.buildContext(template): the first read is issued
BeginBuild ==
  /\ builds' = builds + 1
  /\ cglobals' = EmptyObject
  /\ cdata' = EmptyObject
  /\ step' = 1
  /\ pc' = IF Len(ReadsOf(tpl)) = 0 THEN "finish" ELSE "reading"
  /\ oret' = NoOp
  /\ reads' = <<>>

GenerateOutputs ==
  /\ pc = "idle"
  /\ ocall' = [op |-> "generateOutputs", key |-> ""]
  /\ BeginBuild
  /\ UNCHANGED <<tpl, host, clock, prev, mapVars, renVars, uiVars>>

BuildContext ==
  /\ pc = "idle"
  /\ ocall' = [op |-> "buildContext", key |-> ""]
  /\ BeginBuild
  /\ UNCHANGED <<tpl, host, clock, prev, mapVars, renVars, uiVars>>

\* previewOutput up to its await: if (!output) return null
PreviewOutput ==
  /\ pc = "idle"
  /\ \E key \in PreviewKeys :
       /\ ocall' = [op |-> "previewOutput", key |-> key]
       /\ IF Truthy(OutputOf(tpl.outputs, key))
          THEN BeginBuild
          ELSE /\ pc' = "done"
               /\ oret' = Outcome(Return(Null, <<>>), NoOp)
               /\ UNCHANGED <<builds, cglobals, cdata, step, reads>>
  /\ UNCHANGED <<tpl, host, clock, prev, mapVars, renVars, uiVars>>

\* One turn of the loop of readAllGlobals: the named range is read from the
\* workbook, whatever an earlier call returned
GlobalReadCached(previous, h, config, now) ==
  IF previous.op # "none" /\ config.name \in DOMAIN previous.context.globals
  THEN previous.context.globals[config.name]
  ELSE readNamedRange(h, config.name, config.type, config.defaultValue, now)
GlobalRead(previous, h, config, now) ==
  readNamedRange(h, config.name, config.type, config.defaultValue, now)

\* Every remaining read issued at once, as Promise.all over the configs would
IssuedTogether(next, n) == next..n

\* The host reads issued and not yet completed while the call stands at read
\* `next` of n: both loops await each read before they go on to the next
InFlightReads(next, n) == {next}

\* The read the call awaits completes against the workbook as it is now; a
\* read that rejects ends the call
HostRead ==
  /\ pc = "reading"
  /\ \E i \in InFlightReads(step, Len(ReadsOf(tpl))) :
     LET rd == ReadsOf(tpl)[i]
         table == ReadTableOrEmpty(host, rd.config)
         failed == rd.kind = "table" /\ table.threw
     IN /\ IF rd.kind = "global"
           THEN /\ cglobals' = SetProp(cglobals, rd.config.name,
                                        GlobalRead(prev, host, rd.config, clock))
                /\ UNCHANGED cdata
           ELSE /\ cdata' = IF failed THEN cdata
                            ELSE SetProp(cdata, rd.config.templateKey, table.rows)
                /\ UNCHANGED cglobals
        /\ reads' = Append(reads, [kind |-> rd.kind, name |-> ReadName(rd),
                                   seen |-> Seen(host, rd)])
        /\ step' = step + 1
        /\ pc' = IF failed THEN "done"
                 ELSE IF step = Len(ReadsOf(tpl)) THEN "finish" ELSE "reading"
        /\ oret' = IF failed THEN Outcome(Throw("ItemNotFound", <<>>), NoOp) ELSE oret
  /\ UNCHANGED <<tpl, host, clock, ocall, builds, prev, mapVars, renVars, uiVars>>

\* rendered.name = name, were `rendered` the output definition itself
OutputsNamedInPlace(outputs, rendered) ==
  [i \in 1..Len(outputs) |->
     IF i <= Len(rendered)
     THEN [outputs[i] EXCEPT !.output = [filename |-> outputs[i].output.filename,
                                         template |-> outputs[i].output.template,
                                         name |-> outputs[i].name]]
     ELSE outputs[i]]

\* The outputs of the template after a rendering: renderOutput returns a new
\* object each time, so the name renderAllOutputs assigns lands on the result
OutputsAfterRender(outputs, rendered) == outputs

\* After the last read: mappings, timestamp, and the rendering the call asks for
FinishCall ==
  /\ pc = "finish"
  /\ tpl' = IF ocall.op = "generateOutputs"
            THEN [tpl EXCEPT !.outputs =
                    OutputsAfterRender(tpl.outputs,
                                       renderAllOutputs(tpl.outputs, BuiltContext).rendered)]
            ELSE tpl
  /\ oret' =
       CASE ocall.op = "generateOutputs" ->
              Outcome(renderAllOutputs(tpl.outputs, BuiltContext), BuiltContext)
         [] ocall.op = "previewOutput" ->
              Outcome(renderMember(OutputOf(tpl.outputs, ocall.key), BuiltContext),
                      BuiltContext)
         [] OTHER -> Outcome(Return(BuiltContext, <<>>), BuiltContext)
  /\ pc' = "done"
  /\ UNCHANGED <<host, clock, ocall, step, cglobals, cdata, builds, reads, prev,
                 mapVars, renVars, uiVars>>

\* The caller takes the outcome; the orchestrator keeps nothing of the call
OrchReturn ==
  /\ pc = "done"
  /\ pc' = "idle"
  /\ ocall' = NoOp
  /\ oret' = NoOp
  /\ step' = 0
  /\ builds' = 0
  /\ cglobals' = EmptyObject
  /\ cdata' = EmptyObject
  /\ reads' = <<>>
  /\ prev' = IF ocall.op = "buildContext"
             THEN [op |-> "buildContext", context |-> oret.context,
                   quiet |-> \A i \in 1..Len(reads) :
                               reads[i].seen = Seen(host, ReadsOf(tpl)[i])]
             ELSE NoOp
  /\ UNCHANGED <<tpl, host, clock, mapVars, renVars, uiVars>>

\* The user edits the workbook: tables or named ranges appear, change or vanish
HostChange ==
  /\ \E h \in Hosts :
       /\ h # host
       /\ h.tables = host.tables \/ h.names = host.names
       /\ host' = h
  /\ prev' = IF prev.op = "none" THEN prev ELSE [prev EXCEPT !.quiet = FALSE]
  /\ UNCHANGED <<tpl, clock, ocall, pc, step, cglobals, cdata, builds, oret, reads,
                 mapVars, renVars, uiVars>>

Tick ==
  /\ clock < MaxClock
  /\ clock' = clock + 1
  /\ UNCHANGED <<tpl, host, ocall, pc, step, cglobals, cdata, builds, oret, reads,
                 prev, mapVars, renVars, uiVars>>

----------------------------------------------------------------------------
(* DataOrchestrator.ts: validation *)

\* A part of a template that may be missing altogether
Missing == [defined |-> FALSE, items |-> <<>>]
Present(items) == [defined |-> TRUE, items |-> items]

\* The template as validation reads it: metadata, tables and outputs may be
\* missing; the name and version are values, a filename or a template with no
\* text is the empty string
ViewOf(t) ==
  IF "view" \in DOMAIN t THEN t
  ELSE [view |-> TRUE,
        metadata |-> [defined |-> TRUE, name |-> Str(t.metadata.name),
                      version |-> Str(t.metadata.version)],
        tables |-> Present(t.tables), globals |-> t.globals,
        outputs |-> Present(t.outputs)]

ValidationError(field, message) == [field |-> field, message |-> message, severity |-> "none"]
Finding(field, message, severity) == [field |-> field, message |-> message, severity |-> severity]

\* template.tables.forEach((config, index) => ...)
RECURSIVE TableErrors(_, _)
TableErrors(tables, i) ==
  IF i > Len(tables) THEN <<>>
  ELSE (IF tables[i].name = ""
        THEN <<ValidationError("tables[" \o NumStr(i - 1) \o "].name", "Table name is required")>>
        ELSE <<>>)
       \o TableErrors(tables, i + 1)

\* for (const [name, output] of Object.entries(template.outputs))
RECURSIVE OutputErrors(_, _)
OutputErrors(outputs, i) ==
  IF i > Len(outputs) THEN <<>>
  ELSE (IF outputs[i].output.template = <<>>
        THEN <<ValidationError("outputs." \o outputs[i].name \o ".template",
                               "Template content is required")>>
        ELSE <<>>)
       \o (IF outputs[i].output.filename = <<>>
           THEN <<ValidationError("outputs." \o outputs[i].name \o ".filename",
                                  "Filename is required")>>
           ELSE <<>>)
       \o OutputErrors(outputs, i + 1)

MetadataErrors(metadata) ==
  (IF ~metadata.defined \/ ~Truthy(metadata.name)
   THEN <<ValidationError("metadata.name", "Template name is required")>> ELSE <<>>)
  \o (IF ~metadata.defined \/ ~Truthy(metadata.version)
      THEN <<ValidationError("metadata.version", "Template version is required")>> ELSE <<>>)

StructureErrors(t) ==
  MetadataErrors(t.metadata)
  \o (IF ~t.tables.defined \/ Len(t.tables.items) = 0
      THEN <<ValidationError("tables", "At least one table mapping is required")>>
      ELSE TableErrors(t.tables.items, 1))
  \o (IF ~t.outputs.defined \/ Len(t.outputs.items) = 0
      THEN <<ValidationError("outputs", "At least one output is required")>>
      ELSE OutputErrors(t.outputs.items, 1))

ValidationResult(valid, errors) == [valid |-> valid, errors |-> errors]

\* A validation that stops at the first violated check
validateStructureFirstOnly(t) ==
  LET errors == StructureErrors(t)
  IN ValidationResult(Len(errors) = 0, SubSeq(errors, 1, IF Len(errors) = 0 THEN 0 ELSE 1))

\* DataOrchestrator.validateTemplate(template)
validateStructure(t) ==
  LET errors == StructureErrors(t)
  IN ValidationResult(Len(errors) = 0, errors)

\* The records of validateDataAvailability for the declared items not listed
RECURSIVE MissingItems(_, _, _, _)
MissingItems(configs, listed, i, kind) ==
  IF i > Len(configs) THEN <<>>
  ELSE (IF configs[i].name \in listed THEN <<>>
        ELSE IF kind = "table"
        THEN <<Finding("tables." \o configs[i].name,
                       "Excel Table \"" \o configs[i].name \o "\" not found in workbook",
                       "error")>>
        ELSE <<Finding("globals." \o configs[i].name,
                       "Named Range \"" \o configs[i].name
                         \o "\" not found. Will use default value.",
                       "warning")>>)
       \o MissingItems(configs, listed, i + 1, kind)

\* valid: errors.filter((e) => e.severity !== "warning").length === 0
NoRecord(errors) == Len(errors) = 0
NoErrorSeverity(errors) == \A i \in 1..Len(errors) : errors[i].severity = "warning"
AvailabilityResult(errors) == ValidationResult(NoErrorSeverity(errors), errors)

\* validateTemplate is synchronous: the call returns its result at once
ValidateStructure ==
  /\ pc = "idle"
  /\ ocall' = [op |-> "validateTemplate", key |-> ""]
  /\ oret' = Outcome(Return(validateStructure(ViewOf(tpl)), <<>>), NoOp)
  /\ pc' = "done"
  /\ UNCHANGED <<tpl, host, clock, step, cglobals, cdata, builds, reads, prev,
                 mapVars, renVars, uiVars>>

\* validateDataAvailability up to its first await: tableService.getTables()
ValidateDataAvailability ==
  /\ pc = "idle"
  /\ ocall' = [op |-> "validateDataAvailability", key |-> ""]
  /\ oret' = NoOp
  /\ reads' = <<>>
  /\ pc' = "getTables"
  /\ UNCHANGED <<tpl, host, clock, step, cglobals, cdata, builds, prev, mapVars, renVars, uiVars>>

\* getTables() settles: the workbook lists its tables, or the sync rejects and
\* with it the call; then the loop over template.tables runs
GetTables ==
  /\ pc = "getTables"
  /\ \E settles \in BOOLEAN :
       LET t == ViewOf(tpl)
           errors == MissingItems(t.tables.items, DOMAIN host.tables, 1, "table")
       IN IF ~settles
          THEN /\ oret' = Outcome(Throw("RichApi.Error", <<>>), NoOp)
               /\ pc' = "done"
               /\ UNCHANGED reads
          ELSE /\ reads' = Append(reads, [kind |-> "getTables", name |-> "",
                                          seen |-> DOMAIN host.tables])
               /\ IF ~t.tables.defined
                  THEN /\ oret' = Outcome(Throw("template.tables is not iterable", <<>>), NoOp)
                       /\ pc' = "done"
                  ELSE IF t.globals.defined
                  THEN /\ oret' = Outcome(Return(AvailabilityResult(errors), <<>>), NoOp)
                       /\ pc' = "getNamedRanges"
                  ELSE /\ oret' = Outcome(Return(AvailabilityResult(errors), <<>>), NoOp)
                       /\ pc' = "done"
  /\ UNCHANGED <<tpl, host, clock, ocall, step, cglobals, cdata, builds, prev,
                 mapVars, renVars, uiVars>>

\* getNamedRanges() settles likewise; the warnings follow the table records
GetNamedRanges ==
  /\ pc = "getNamedRanges"
  /\ \E settles \in BOOLEAN :
       LET t == ViewOf(tpl)
           errors == oret.value.errors
                     \o MissingItems(t.globals.items, DOMAIN host.names, 1, "global")
       IN IF ~settles
          THEN /\ oret' = Outcome(Throw("RichApi.Error", <<>>), NoOp)
               /\ UNCHANGED reads
          ELSE /\ reads' = Append(reads, [kind |-> "getNamedRanges", name |-> "",
                                          seen |-> DOMAIN host.names])
               /\ oret' = Outcome(Return(AvailabilityResult(errors), <<>>), NoOp)
  /\ pc' = "done"
  /\ UNCHANGED <<tpl, host, clock, ocall, step, cglobals, cdata, builds, prev,
                 mapVars, renVars, uiVars>>

NextOrch ==
  \/ GenerateOutputs
  \/ BuildContext
  \/ PreviewOutput
  \/ HostRead
  \/ FinishCall
  \/ ValidateStructure
  \/ ValidateDataAvailability
  \/ GetTables
  \/ GetNamedRanges
  \/ OrchReturn
  \/ HostChange
  \/ Tick

SpecOrch == InitOrch /\ [][NextOrch]_vars

----------------------------------------------------------------------------
(* Claims about DataOrchestrator.ts *)

OutputKeysOf(outputs) == {outputs[i].name : i \in 1..Len(outputs)}

\* C7: every RenderedOutput handed to a caller of the orchestrator, by
\* generateOutputs or by previewOutput, has its name equal to the key of that
\* output in template.outputs.
C7_NameIsOutputKey ==
  (pc = "done" /\ ~oret.threw) =>
    /\ ocall.op = "generateOutputs" =>
         \A i \in 1..Len(oret.value) : oret.value[i].name = tpl.outputs[i].name
    /\ (ocall.op = "previewOutput" /\ oret.value # Null) =>
         oret.value.name = ocall.key

\* The generateOutputs half of C7 on its own: the list it returns is named by
\* the keys.
C7_GenerateNamesAreKeys ==
  (pc = "done" /\ ~oret.threw /\ ocall.op = "generateOutputs") =>
    /\ Len(oret.value) = Len(tpl.outputs)
    /\ \A i \in 1..Len(oret.value) : oret.value[i].name = tpl.outputs[i].name

\* The previewOutput half of C7 as the code has it: a preview is named by the
\* resolved filename of its output.
C7_PreviewNameIsFilename ==
  (pc = "done" /\ ~oret.threw /\ ocall.op = "previewOutput" /\ oret.value # Null) =>
    LET output == OutputOf(tpl.outputs, ocall.key).output
    IN oret.value.name = resolveFilename(output.filename, oret.context).s

\* C10: previewOutput(template, key) returns null without throwing when key is
\* not a key of template.outputs; when the key exists it performs exactly one
\* context build and renders only that output, so only a failure of that
\* output's own rendering makes the preview fail.
C10_PreviewOneOutput ==
  (pc = "done" /\ ocall.op = "previewOutput") =>
    IF ocall.key \notin OutputKeysOf(tpl.outputs)
    THEN ~oret.threw /\ oret.value = Null
    ELSE LET output == OutputOf(tpl.outputs, ocall.key).output
         IN /\ builds = 1
            /\ oret.rendered \in {<<>>, <<output>>}
            /\ oret.threw <=> renderOutput(output, oret.context).threw

\* C10 for the names that are neither keys of template.outputs nor members
\* every plain object inherits, and for the keys themselves.
C10_OwnKeysAndPlainNames ==
  (pc = "done" /\ ocall.op = "previewOutput" /\ ocall.key \notin ObjectPrototypeKeys) =>
    C10_PreviewOneOutput


\* The reads a template declares: its globals in order, then its tables in order
DeclaredReads(t) ==
  [i \in 1..Len(t.globals.items) |-> [kind |-> "global", name |-> t.globals.items[i].name]]
  \o [i \in 1..Len(t.tables) |-> [kind |-> "table", name |-> t.tables[i].name]]
ReadsDone == [i \in 1..Len(reads) |-> [kind |-> reads[i].kind, name |-> reads[i].name]]

\* The context made of what the reads of the call returned
ContextOfReads ==
  [globals |-> cglobals, data |-> MappedData(tpl.tables, cdata),
   currentdatetime |-> oret.context.currentdatetime]

\* C11: a generateOutputs call builds the context once, reading each declared
\* global and table once, and renders every output against that one context,
\* whatever the workbook has become by the time of the rendering.
C11_OneContextForAllOutputs ==
  (pc = "done" /\ ocall.op = "generateOutputs") =>
    /\ builds = 1
    /\ ReadsDone = DeclaredReads(tpl)
    /\ oret.context = ContextOfReads
    /\ ~oret.threw =>
         /\ Len(oret.value) = Len(tpl.outputs)
         /\ \A i \in 1..Len(oret.value) :
              /\ oret.value[i].content =
                   render(tpl.outputs[i].output.template, ContextOfReads).s
              /\ oret.value[i].filename =
                   resolveFilename(tpl.outputs[i].output.filename, ContextOfReads).s

\* Two outputs were generated after the workbook moved away from what was read
C11_Witness ==
  /\ pc = "done" /\ ocall.op = "generateOutputs" /\ ~oret.threw
  /\ Len(oret.value) = 2
  /\ Len(reads) = 2
  /\ \A i \in 1..Len(reads) : reads[i].seen # Seen(host, ReadsOf(tpl)[i])
  /\ oret.context.currentdatetime # Timestamp(clock)


\* The value a global takes when its read finds nothing: the declared default,
\* or without one the zero value of the declared type (for a date, the time of
\* the read)
DegradedValues(config) ==
  IF config.defaultValue \notin {Undefined, Null} THEN {config.defaultValue}
  ELSE CASE config.type = "number" -> {Num("0")}
         [] config.type = "boolean" -> {Bool("false")}
         [] config.type = "date" -> {Str(IsoString(t)) : t \in 0..clock}
         [] OTHER -> {Str("")}

\* The rows of the data as the tables seen by the reads hold them, mapped
RowsSeen ==
  MappedData(tpl.tables,
             [k \in {tpl.tables[i].name : i \in 1..Len(tpl.tables)} |->
                LET i == CHOOSE j \in 1..Len(reads) : reads[j].kind = "table" /\ reads[j].name = k
                    config == CHOOSE c \in {tpl.tables[j] : j \in 1..Len(tpl.tables)} : c.name = k
                IN IF k \in DOMAIN reads[i].seen.tables
                   THEN readTable(reads[i].seen, k, config.columnMap).items
                   ELSE <<>>])

\* C12: failing host reads never abort buildContext: the context has a key for
\* every declared table, [] for each table whose read failed and the mapped
\* host rows for the others, and each global whose read failed holds its
\* declared default or the zero value of its type.
C12_ReadFailuresDegrade ==
  (pc = "done" /\ ocall.op = "buildContext") =>
    /\ ~oret.threw
    /\ DOMAIN oret.value.data = {tpl.tables[i].name : i \in 1..Len(tpl.tables)}
    /\ oret.value.data = RowsSeen
    /\ \A i \in 1..Len(reads) :
         /\ (reads[i].kind = "table" /\ reads[i].name \notin DOMAIN reads[i].seen.tables)
              => oret.value.data[reads[i].name] = <<>>
         /\ (reads[i].kind = "global" /\ reads[i].name \notin DOMAIN reads[i].seen.names)
              => oret.value.globals[reads[i].name]
                   \in DegradedValues(tpl.globals.items[i])

\* One table read failed and the other did not; the context holds [] and rows
C12_Witness ==
  /\ pc = "done" /\ ocall.op = "buildContext" /\ ~oret.threw
  /\ Len(tpl.tables) = 2
  /\ \E i, j \in 1..Len(reads) :
       /\ reads[i].kind = "table" /\ reads[i].seen.tables = EmptyObject
       /\ reads[j].kind = "table" /\ reads[j].seen.tables # EmptyObject
       /\ oret.value.data[reads[i].name] = <<>>
       /\ Len(oret.value.data[reads[j].name]) = 1

\* Both global reads failed; one global has a declared default, the other not
C12_WitnessGlobals ==
  /\ pc = "done" /\ ocall.op = "buildContext" /\ ~oret.threw
  /\ Len(tpl.globals.items) = 2
  /\ \A i \in 1..2 : reads[i].seen.names = EmptyObject
  /\ oret.value.globals["project"] = Str("P0")
  /\ oret.value.globals["count"] = Num("0")


\* The values a global can take when read from the workbook part `seen` at
\* some time up to now
GlobalsSeen(i) ==
  LET config == tpl.globals.items[i]
  IN {readNamedRange(reads[i].seen, config.name, config.type, config.defaultValue, t) :
        t \in 0..clock}

\* C13: there is no cache: every call that builds a context reads every
\* declared global and table again, and the context holds what those reads saw
\* in the workbook at the time, never a value an earlier call read.
C13_NoCache ==
  (pc = "done" /\ builds > 0) =>
    /\ ReadsDone = DeclaredReads(tpl)
    /\ oret.context.data = RowsSeen
    /\ DOMAIN oret.context.globals = {tpl.globals.items[i].name : i \in 1..Len(tpl.globals.items)}
    /\ \A i \in 1..Len(tpl.globals.items) :
         oret.context.globals[tpl.globals.items[i].name] \in GlobalsSeen(i)

\* A second buildContext call, made after the workbook changed, returned the
\* new values of a global and of a table and not those of the call before
C13_Witness ==
  /\ pc = "done" /\ ocall.op = "buildContext"
  /\ prev.op = "buildContext"
  /\ "project" \in DOMAIN prev.context.globals
  /\ prev.context.globals["project"] = Str("P0")
  /\ oret.context.globals["project"] = Str("Acme")
  /\ prev.context.data["T1"] = <<>>
  /\ Len(oret.context.data["T1"]) = 1


\* The clock second a buildContext timestamp was taken at
SecondOf(stamp) == CHOOSE c \in 0..MaxClock : Timestamp(c) = stamp

\* The call before this one was a buildContext too and the workbook has not
\* changed since the values it read were in place
SecondOfTwoCalls ==
  /\ pc = "done" /\ ocall.op = "buildContext"
  /\ prev.op = "buildContext" /\ prev.quiet

\* C14: two buildContext calls in immediate succession on an unchanged workbook
\* return identical globals and identical data, whatever the types and defaults
\* of the globals and whether the workbook has them, and the second
\* currentdatetime is not smaller than the first.
C14_BuildContextIdempotent ==
  SecondOfTwoCalls =>
    /\ oret.value.globals = prev.context.globals
    /\ oret.value.data = prev.context.data
    /\ SecondOf(oret.value.currentdatetime) >= SecondOf(prev.context.currentdatetime)

\* A global of type date without a declared default whose named range is absent
DateDefaulted ==
  \E i \in 1..Len(tpl.globals.items) :
    /\ tpl.globals.items[i].type = "date"
    /\ tpl.globals.items[i].defaultValue \in {Undefined, Null}
    /\ readNamedRange(host, tpl.globals.items[i].name, "string", Undefined, 0) = Str("")

\* C14 holds for every template and workbook but those with such a global, and
\* the timestamps never decrease.
C14_IdempotentButDateDefault ==
  SecondOfTwoCalls =>
    /\ ~DateDefaulted =>
         /\ oret.value.globals = prev.context.globals
         /\ oret.value.data = prev.context.data
    /\ SecondOf(oret.value.currentdatetime) >= SecondOf(prev.context.currentdatetime)

----------------------------------------------------------------------------
(* Validation of templates of any shape *)

NamedTable(name) == [name |-> name, columnMap |-> EmptyObject, valueMappings |-> MissingMappings]
OutputEntry(name, filename, template) ==
  [name |-> name, output |-> [filename |-> filename, template |-> template]]

ValMetadata ==
  {[defined |-> FALSE, name |-> Undefined, version |-> Undefined]} \cup
  [defined : {TRUE}, name : {Undefined, Str(""), Str("demo")},
   version : {Undefined, Str("1.0")}]
ValTables ==
  {Missing, Present(<<>>), Present(<<NamedTable("T1")>>), Present(<<NamedTable("")>>),
   Present(<<NamedTable("T1"), NamedTable("T2")>>),
   Present(<<NamedTable(""), NamedTable("T2"), NamedTable("")>>)}
ValGlobals == {MissingGlobals, GlobalConfigs(<<GlobalProject, GlobalWhen>>)}
ValOutputs ==
  {Missing, Present(<<>>),
   Present(<<OutputEntry("k1", <<Lit("out.json")>>, <<Lit("hello")>>)>>),
   Present(<<OutputEntry("k1", <<>>, <<>>)>>),
   Present(<<OutputEntry("k1", <<Lit("out.json")>>, <<>>),
             OutputEntry("k2", <<>>, <<Unclosed>>)>>)}
ValTemplates ==
  [view : {TRUE}, metadata : ValMetadata, tables : ValTables, globals : ValGlobals,
   outputs : ValOutputs]

InitVal ==
  /\ tpl \in ValTemplates
  /\ host \in Hosts
  /\ clock = 0
  /\ ocall = NoOp
  /\ pc = "idle"
  /\ step = 0
  /\ cglobals = EmptyObject
  /\ cdata = EmptyObject
  /\ builds = 0
  /\ oret = NoOp
  /\ reads = <<>>
  /\ prev = NoOp
  /\ IdleMap
  /\ IdleRen
  /\ IdleUI

NextVal ==
  \/ ValidateStructure
  \/ ValidateDataAvailability
  \/ GetTables
  \/ GetNamedRanges
  \/ OrchReturn
  \/ HostChange

SpecVal == InitVal /\ [][NextVal]_vars

----------------------------------------------------------------------------
(* Claims about validation *)

\* The field paths structural validation has a check for, and those violated
ViolatedChecks(t) ==
  {f \in {"metadata.name"} : ~t.metadata.defined \/ t.metadata.name \in {Undefined, Str("")}}
  \cup {f \in {"metadata.version"} :
          ~t.metadata.defined \/ t.metadata.version \in {Undefined, Str("")}}
  \cup {f \in {"tables"} : ~t.tables.defined \/ t.tables.items = <<>>}
  \cup {"tables[" \o NumStr(i - 1) \o "].name" :
          i \in {j \in 1..Len(t.tables.items) : t.tables.items[j].name = ""}}
  \cup {f \in {"outputs"} : ~t.outputs.defined \/ t.outputs.items = <<>>}
  \cup {"outputs." \o t.outputs.items[i].name \o ".template" :
          i \in {j \in 1..Len(t.outputs.items) : t.outputs.items[j].output.template = <<>>}}
  \cup {"outputs." \o t.outputs.items[i].name \o ".filename" :
          i \in {j \in 1..Len(t.outputs.items) : t.outputs.items[j].output.filename = <<>>}}

\* C15: structural validation runs every check and emits exactly one record per
\* violated check (name, version, tables or each unnamed table, outputs or each
\* empty template and each empty filename); valid iff there is no record.
C15_OneRecordPerViolatedCheck ==
  (pc = "done" /\ ocall.op = "validateTemplate") =>
    LET errors == oret.value.errors
    IN /\ ~oret.threw
       /\ {errors[i].field : i \in 1..Len(errors)} = ViolatedChecks(ViewOf(tpl))
       /\ Len(errors) = Cardinality(ViolatedChecks(ViewOf(tpl)))
       /\ oret.value.valid <=> errors = <<>>

\* A template with a table, without a version and with zero outputs was
\* validated: exactly two records
C15_Witness ==
  /\ pc = "done" /\ ocall.op = "validateTemplate"
  /\ tpl.metadata.defined /\ tpl.metadata.name = Str("demo")
  /\ tpl.metadata.version = Undefined
  /\ tpl.tables = Present(<<NamedTable("T1")>>)
  /\ tpl.outputs = Present(<<>>)
  /\ ~oret.value.valid
  /\ Len(oret.value.errors) = 2
  /\ oret.value.errors[1].field = "metadata.version"
  /\ oret.value.errors[2].field = "outputs"


\* The declared tables the table list lacks and the declared globals the list of
\* named ranges lacks, by position in the template
TablesNotListed ==
  {i \in 1..Len(tpl.tables.items) : tpl.tables.items[i].name \notin reads[1].seen}
GlobalsNotListed ==
  IF ~tpl.globals.defined THEN {}
  ELSE {i \in 1..Len(tpl.globals.items) : tpl.globals.items[i].name \notin reads[2].seen}
Records(errors, severity) == {i \in 1..Len(errors) : errors[i].severity = severity}

\* C16: validateDataAvailability emits one error record per declared table the
\* host does not list and one warning per declared global the host does not
\* list, and nothing else; valid iff there is no error record.
C16_AvailabilityRecords ==
  (pc = "done" /\ ocall.op = "validateDataAvailability" /\ ~oret.threw) =>
    LET errors == oret.value.errors
    IN /\ Cardinality(Records(errors, "error")) = Cardinality(TablesNotListed)
       /\ Cardinality(Records(errors, "warning")) = Cardinality(GlobalsNotListed)
       /\ Len(errors) = Cardinality(TablesNotListed) + Cardinality(GlobalsNotListed)
       /\ \A i \in TablesNotListed : \E k \in Records(errors, "error") :
            errors[k].field = "tables." \o tpl.tables.items[i].name
       /\ \A i \in GlobalsNotListed : \E k \in Records(errors, "warning") :
            errors[k].field = "globals." \o tpl.globals.items[i].name
       /\ oret.value.valid <=> TablesNotListed = {}

\* Every declared table is listed and a declared global is not: the result is
\* valid and carries the warning
C16_Witness ==
  /\ pc = "done" /\ ocall.op = "validateDataAvailability" /\ ~oret.threw
  /\ tpl.tables.defined /\ Len(tpl.tables.items) = 2
  /\ TablesNotListed = {}
  /\ GlobalsNotListed # {}
  /\ oret.value.valid
  /\ Len(oret.value.errors) = 2

\* One declared table and the declared globals are missing: invalid, and the
\* warnings are there as well
C16_WitnessInvalid ==
  /\ pc = "done" /\ ocall.op = "validateDataAvailability" /\ ~oret.threw
  /\ Cardinality(TablesNotListed) = 1
  /\ GlobalsNotListed # {}
  /\ ~oret.value.valid
  /\ Len(oret.value.errors) = 3

\* C17: validation never throws: whatever the template and whatever the host
\* does, its enumerations failing included, the structural validation and
\* validateDataAvailability return a ValidationResult.
C17_ValidationNeverThrows ==
  (pc = "done" /\ ocall.op \in {"validateTemplate", "validateDataAvailability"}) =>
    ~oret.threw

\* The structural validation on its own returns a result for every template
C17_StructureReturns ==
  (pc = "done" /\ ocall.op = "validateTemplate") =>
    /\ ~oret.threw
    /\ oret.value.valid \in BOOLEAN

\* validateDataAvailability returns a result whenever the host enumerations
\* succeed and the template has a list of tables
C17_AvailabilityReturnsIfHostDoes ==
  (pc = "done" /\ ocall.op = "validateDataAvailability" /\ tpl.tables.defined
     /\ Len(reads) = (IF tpl.globals.defined THEN 2 ELSE 1)) =>
    ~oret.threw

----------------------------------------------------------------------------
(* GlobalsService.readNamedRange on its own *)

\* What the first cell of the named range "g" can hold, if the name is there
CellContents ==
  {Unreadable, Null, Undefined, Str(""), Num("0"), Bool("false"), Bool("true"),
   Str("abc"), Str("12"), Str("yes"), Num("46027")}
RangeHosts ==
  {[tables |-> EmptyObject, names |-> EmptyObject]} \cup
  {[tables |-> EmptyObject, names |-> ("g" :> cell)] : cell \in CellContents}
GlobalTypes == {"undefined", "string", "number", "boolean", "date"}
DefaultValues == {Undefined, Null, Str("dflt"), Str(""), Num("5"), Num("0"), Bool("true")}

InitGlobals ==
  /\ tpl = NoOp
  /\ host \in RangeHosts
  /\ clock = 0
  /\ ocall = NoOp
  /\ pc = "idle"
  /\ step = 0
  /\ cglobals = EmptyObject
  /\ cdata = EmptyObject
  /\ builds = 0
  /\ oret = NoOp
  /\ reads = <<>>
  /\ prev = NoOp
  /\ IdleMap
  /\ IdleRen
  /\ IdleUI

ReadNamedRange ==
  /\ pc = "idle"
  /\ \E type \in GlobalTypes, defaultValue \in DefaultValues :
       /\ ocall' = [op |-> "readNamedRange", key |-> "g", type |-> type,
                    defaultValue |-> defaultValue]
       /\ oret' = Outcome(Return(readNamedRange(host, "g", type, defaultValue, clock),
                                 <<>>), NoOp)
  /\ pc' = "done"
  /\ UNCHANGED <<tpl, host, clock, step, cglobals, cdata, builds, reads, prev,
                 mapVars, renVars, uiVars>>

NextGlobals ==
  \/ ReadNamedRange
  \/ OrchReturn
  \/ Tick

SpecGlobals == InitGlobals /\ [][NextGlobals]_vars

\* The named value is absent, unreadable, or its first cell is empty
NothingToRead ==
  \/ "g" \notin DOMAIN host.names
  \/ host.names["g"] \in {Unreadable, Null, Undefined, Str("")}

\* The zero value of a type; for a date, the time of the call as an ISO string
ZeroValues(type) ==
  CASE type = "number" -> {Num("0")}
    [] type = "boolean" -> {Bool("false")}
    [] type = "date" -> {Str(IsoString(t)) : t \in 0..clock}
    [] OTHER -> {Str("")}

\* The JavaScript type a converted value has
TypeTag(type) ==
  CASE type = "number" -> "number"
    [] type = "boolean" -> "boolean"
    [] OTHER -> "string"

C18_WitnessZero ==
  /\ pc = "done" /\ ocall.op = "readNamedRange"
  /\ host.names = EmptyObject
  /\ ocall.type = "date" /\ ocall.defaultValue = Undefined
  /\ clock = 1
  /\ oret.value = Str(IsoString(1))

----------------------------------------------------------------------------
(* OutputService: downloads *)

\* getTimestamp(): toISOString() with ':' and '.' replaced by '-', 19 characters
getTimestamp(now) == "2026-01-05T10-00-0" \o NumStr(now)

\* OutputService.getMimeType: the same lookup with a longer table
downloadMimeTypes ==
  mimeTypes @@ ("htm" :> Str("text/html")) @@ ("js" :> Str("text/javascript"))
  @@ ("ts" :> Str("text/typescript")) @@ ("css" :> Str("text/css"))
downloadMimeType(filename) ==
  LET found == GetProp(downloadMimeTypes, toLowerCase(SplitPop(filename)))
  IN IF Truthy(found) THEN found ELSE Str("text/plain")

\* downloadBlob(blob, filename): one download handed to the browser
FileDownload(filename, content, type) ==
  [kind |-> "file", filename |-> filename, content |-> content, type |-> type,
   members |-> EmptyObject]
ZipDownload(filename, members) ==
  [kind |-> "zip", filename |-> filename, content |-> "", type |-> Str("application/zip"),
   members |-> members]

\* downloadFile(content, filename, mimeType)
downloadFile(content, filename, mimeType) ==
  FileDownload(filename, content,
               IF Truthy(mimeType) THEN mimeType ELSE downloadMimeType(filename))

\* zip.file(file.name, file.content) for each file: a name already in the
\* archive is replaced
RECURSIVE ZipFiles(_, _, _)
ZipFiles(files, i, zip) ==
  IF i > Len(files) THEN zip
  ELSE ZipFiles(files, i + 1, SetProp(zip, files[i].name, files[i].content))

\* downloadAsZip(files, zipFilename)
downloadAsZip(files, zipFilename) == ZipDownload(zipFilename, ZipFiles(files, 1, EmptyObject))

\* downloadOutputs(outputs, templateName): the downloads made, or a throw
downloadOutputs(outputs, templateName, now) ==
  IF Len(outputs) = 0 THEN Throw("No outputs to download", <<>>)
  ELSE IF Len(outputs) = 1
  THEN Return(<<downloadFile(outputs[1].content, outputs[1].filename, outputs[1].mimeType)>>,
              <<>>)
  ELSE LET files == [i \in 1..Len(outputs) |->
                       [name |-> outputs[i].filename, content |-> outputs[i].content]]
           zipName == IF Truthy(templateName) THEN String(templateName) \o "_outputs.zip"
                      ELSE "outputs_" \o getTimestamp(now) \o ".zip"
       IN Return(<<downloadAsZip(files, zipName)>>, <<>>)

\* The rendered outputs handed to downloadOutputs
Rendered(name, filename, content) ==
  [name |-> name, filename |-> filename, content |-> content,
   mimeType |-> getMimeType(filename)]
RenderedOutputs ==
  {Rendered("k1", f, c) : f \in {"out.json", "data.csv"}, c \in {"a", "b"}}
TemplateNames == {Undefined, Str(""), Str("demo")}

InitDownload ==
  /\ tpl = NoOp
  /\ host = NoOp
  /\ clock = 0
  /\ ocall = NoOp
  /\ pc = "idle"
  /\ step = 0
  /\ cglobals = EmptyObject
  /\ cdata = EmptyObject
  /\ builds = 0
  /\ oret = NoOp
  /\ reads = <<>>
  /\ prev = NoOp
  /\ IdleMap
  /\ IdleRen
  /\ IdleUI

DownloadOutputs ==
  /\ pc = "idle"
  /\ \E outputs \in SeqsUpTo(RenderedOutputs, MaxOutputs), templateName \in TemplateNames :
       /\ ocall' = [op |-> "downloadOutputs", key |-> "", outputs |-> outputs,
                    templateName |-> templateName, at |-> clock]
       /\ oret' = Outcome(downloadOutputs(outputs, templateName, clock), NoOp)
  /\ pc' = "done"
  /\ UNCHANGED <<tpl, host, clock, step, cglobals, cdata, builds, reads, prev,
                 mapVars, renVars, uiVars>>

NextDownload ==
  \/ DownloadOutputs
  \/ OrchReturn
  \/ Tick

SpecDownload == InitDownload /\ [][NextDownload]_vars

\* The archive name the claim gives: from the template name, else a timestamp
ArchiveName ==
  IF ocall.templateName \in {Undefined, Str("")}
  THEN "outputs_" \o getTimestamp(ocall.at) \o ".zip"
  ELSE ocall.templateName.v \o "_outputs.zip"

\* C19: downloadOutputs delivers exactly one artifact: the file itself (filename,
\* content, MIME type) for a list of one entry, and for a longer list one
\* archive with one member per rendered output, named by the output's filename,
\* the archive being named after the template or else a timestamp.
C19_OneArtifact ==
  (pc = "done" /\ ocall.op = "downloadOutputs" /\ Len(ocall.outputs) >= 1) =>
    /\ ~oret.threw
    /\ Len(oret.value) = 1
    /\ Len(ocall.outputs) = 1 =>
         /\ oret.value[1].kind = "file"
         /\ oret.value[1].filename = ocall.outputs[1].filename
         /\ oret.value[1].content = ocall.outputs[1].content
         /\ oret.value[1].type = ocall.outputs[1].mimeType
    /\ Len(ocall.outputs) > 1 =>
         /\ oret.value[1].kind = "zip"
         /\ oret.value[1].filename = ArchiveName
         /\ Cardinality(DOMAIN oret.value[1].members) = Len(ocall.outputs)
         /\ \A i \in 1..Len(ocall.outputs) :
              ocall.outputs[i].filename \in DOMAIN oret.value[1].members

\* The filenames of the list are pairwise distinct
DistinctFilenames ==
  \A i, j \in 1..Len(ocall.outputs) :
    i # j => ocall.outputs[i].filename # ocall.outputs[j].filename

\* C19 for the lists whose filenames are pairwise distinct; in every archive
\* each member holds the content of the last output of that filename.
C19_DistinctFilenames ==
  (pc = "done" /\ ocall.op = "downloadOutputs" /\ Len(ocall.outputs) >= 1) =>
    /\ DistinctFilenames => C19_OneArtifact
    /\ Len(ocall.outputs) > 1 =>
         /\ DOMAIN oret.value[1].members =
              {ocall.outputs[i].filename : i \in 1..Len(ocall.outputs)}
         /\ \A i \in 1..Len(ocall.outputs) :
              (\A j \in 1..Len(ocall.outputs) :
                 ocall.outputs[j].filename = ocall.outputs[i].filename => j <= i)
              => oret.value[1].members[ocall.outputs[i].filename] = ocall.outputs[i].content

\* An empty list is refused with an error and nothing is delivered
C19_EmptyListThrows ==
  (pc = "done" /\ ocall.op = "downloadOutputs" /\ Len(ocall.outputs) = 0) =>
    oret.threw /\ oret.message = "No outputs to download"

----------------------------------------------------------------------------
(* The template during rendering and validation *)

\* C20: no call of buildContext, generateOutputs, previewOutput or of either
\* validation changes the template it is given: tables, globals, value-mapping
\* rules and outputs are after every step what they were before it.
C20_TemplateUnchanged == [][tpl' = tpl]_vars

\* generateOutputs has rendered outputs of a template with value-mapping rules
\* and globals, and failed on a later output
C20_Witness ==
  /\ pc = "done" /\ ocall.op = "generateOutputs"
  /\ oret.threw
  /\ Len(oret.rendered) = 2
  /\ tpl = Template(<<TableT1>>, GlobalConfigs(<<GlobalProject, GlobalCount>>), OutputsOneBad)

----------------------------------------------------------------------------
(* The order of the host reads of one context build *)

BuildOps == {"buildContext", "generateOutputs", "previewOutput"}

\* The host reads of the call that are issued and not completed
InFlight ==
  IF pc = "reading" THEN InFlightReads(step, Len(ReadsOf(tpl))) ELSE {}

\* C21: the host reads of one context build complete in declaration order,
\* globals first and tables after them, and at most one of them is in flight at
\* a time: the one that follows the reads completed so far.
C21_ReadsSequential ==
  ocall.op \in BuildOps =>
    /\ Len(reads) <= Len(DeclaredReads(tpl))
    /\ \A i \in 1..Len(reads) : ReadsDone[i] = DeclaredReads(tpl)[i]
    /\ \A i, j \in 1..Len(reads) :
         (i < j /\ reads[i].kind = "table") => reads[j].kind = "table"
    /\ Cardinality(InFlight) <= 1
    /\ pc = "reading" => InFlight = {Len(reads) + 1}

\* Both globals of a template are read and the read of its table is in flight
C21_Witness ==
  /\ ocall.op = "buildContext" /\ pc = "reading"
  /\ Len(tpl.globals.items) = 2 /\ Len(tpl.tables) = 1
  /\ Len(reads) = 2
  /\ InFlight = {3}

----------------------------------------------------------------------------
(* Rules that read a column an earlier rule writes *)

\* Rule j of the list is not overwritten by a later rule
Survives(rules, j) ==
  \A k \in (j + 1)..Len(rules) : rules[k].outputField # rules[j].outputField

\* Rule j reads the column an earlier rule of the list writes
Chained(rules, j) ==
  \E k \in 1..(j - 1) : rules[k].outputField = rules[j].column

\* C22: every rule computes its value from the input row: where a rule reads
\* the column an earlier rule of the list wrote, the value it leaves is the one
\* the original row's content of that column gives (the default where the
\* original row lacks the column), not the one the earlier rule's output gives.
C22_RulesReadOriginalRow ==
  mcall.op = "applyMappings" =>
    \A i \in 1..Len(mret["T1"]) : \A j \in 1..Len(RulesOf("T1")) :
      LET rules == RulesOf("T1")
      IN (Chained(rules, j) /\ Survives(rules, j)) =>
           heap[mret["T1"][i]][rules[j].outputField] = RuleValue(rows0[i], rules[j])

\* A rule turned column c into d = "X", the next rule read d: the original d
\* gives the default where the first rule's output would have given "Y"
C22_Witness ==
  /\ mcall.op = "applyMappings"
  /\ Len(mret["T1"]) > 0
  /\ Len(RulesOf("T1")) = 2
  /\ RulesOf("T1")[1].column = "c" /\ RulesOf("T1")[1].outputField = "d"
  /\ RulesOf("T1")[2].column = "d" /\ RulesOf("T1")[2].outputField = "e"
  /\ heap[mret["T1"][1]]["d"] = Str("X")
  /\ heap[mret["T1"][1]]["e"] = Str("dflt")

\* The second rule reads column e, which the original row lacks and the first
\* rule wrote
C22_WitnessLacking ==
  /\ mcall.op = "applyMappings"
  /\ Len(mret["T1"]) > 0
  /\ Len(RulesOf("T1")) = 2
  /\ RulesOf("T1")[1].column = "c" /\ RulesOf("T1")[1].outputField = "e"
  /\ RulesOf("T1")[2].column = "e" /\ RulesOf("T1")[2].outputField = "d"
  /\ "e" \notin DOMAIN rows0[1]
  /\ heap[mret["T1"][1]]["e"] = Str("X")
  /\ heap[mret["T1"][1]]["d"] = Str("dflt")

----------------------------------------------------------------------------
(* App.tsx, OutputsTab.tsx, OutputEditor.tsx *)

\* useState<AddInTemplate | null>(null)
NoTemplate == Null
Tabs == {"data", "outputs", "template", "preview", "export"}
Unmounted == NoOp

\* The most local outputs the Outputs tab is driven to, and the highest number
\* Add Output is driven to
MaxLocal == 2
MaxNumber == MaxLocal + 1

\* Object.keys of an outputs object, in insertion order
KeysOf(outputs) == [i \in 1..Len(outputs) |-> outputs[i].name]
KeySet(outputs) == {outputs[i].name : i \in 1..Len(outputs)}

\* `output${n}`
OutputKey(n) == "output" \o NumStr(n)

\* The numbers of the keys that start with "output" and go on with a number;
\* maxNumber + 1
OutputNumbers(outputs) ==
  {n \in 1..MaxNumber : OutputKey(n) \in KeySet(outputs)}
NextNumber(outputs) ==
  LET numbers == OutputNumbers(outputs)
  IN IF numbers = {} THEN 1 ELSE (CHOOSE n \in numbers : \A m \in numbers : m <= n) + 1

\* { ...prev, [key]: output }: an existing key keeps its place, a new one is last
PutEntry(outputs, key, output) ==
  IF key \in KeySet(outputs)
  THEN [i \in 1..Len(outputs) |->
          IF outputs[i].name = key THEN [name |-> key, output |-> output] ELSE outputs[i]]
  ELSE Append(outputs, [name |-> key, output |-> output])

\* delete updated[key]
DeleteEntry(outputs, key) == SelectSeq(outputs, LAMBDA e : e.name # key)

\* updated[newKey] = updated[oldKey]; delete updated[oldKey]
RenameEntry(outputs, oldKey, newKey) ==
  DeleteEntry(PutEntry(outputs,
                       newKey, outputs[EntryIndex(outputs, oldKey)].output), oldKey)

\* generateStarterTemplate for a .json filename: an array over the first table
StarterTemplate(tableInfos) ==
  IF Len(tableInfos) = 0 THEN <<Lit("[{}]")>>
  ELSE <<Lit("[for row in " \o tableInfos[1] \o "]")>>

\* handleAddOutput's newOutput
NewOutput(n, tableInfos) ==
  [filename |-> <<Lit(OutputKey(n) \o ".json")>>, template |-> StarterTemplate(tableInfos)]

\* The component as mounted: useState initial values, then the effect that
\* syncs from the template (lines 93-106), then the debounce effect arms its timer
MountOutputsTab(t) ==
  [localOutputs |-> IF t # NoTemplate /\ t.outputs.defined THEN t.outputs.items ELSE <<>>,
   nextOutputNumber |-> IF t # NoTemplate /\ t.outputs.defined
                        THEN NextNumber(t.outputs.items) ELSE 1,
   pendingDeleteKey |-> Null,
   deleteError |-> Null,
   timer |-> t # NoTemplate]

LastOutputError == Str("Cannot delete the last output. At least one output is required.")

\* What the user did and where it stands: the handler that ran last, whether
\* the outputs as the user last left them differ from the App's, and the key
\* under which the output whose deletion was requested is stored now
Log(op, unsaved, tracked) == [op |-> op, unsaved |-> unsaved, tracked |-> tracked]
NoLog == Log("none", FALSE, Null)

\* The templates the App holds when the Outputs tab is opened
AppMetadata == [defined |-> TRUE, name |-> Str("demo"), version |-> Str("1.0")]
AppTemplate(tableNames, outputs) ==
  [view |-> TRUE, metadata |-> AppMetadata,
   tables |-> Present([i \in 1..Len(tableNames) |-> NamedTable(tableNames[i])]),
   globals |-> MissingGlobals,
   outputs |-> Present(outputs)]
OutputsTabTemplates ==
  {AppTemplate(<<"T1">>, <<OutputEntry("main", <<Lit("m.json")>>, <<Lit("m")>>),
                           OutputEntry("output1", <<Lit("a.json")>>, <<Lit("a")>>)>>)}

\* The tabs the user goes to
VisitedTabs == {"data", "outputs", "template"}

\* Names the user types into the Output Name field, and the edits of the
\* Filename and Template fields
RenameTargets == {"output2"}
EditedOutputs(output) == {[output EXCEPT !.filename = <<>>]}

InitOutputs ==
  /\ appTemplate \in OutputsTabTemplates
  /\ appTables = <<"T1">>
  /\ selectedTab = "outputs"
  /\ outputsTab = MountOutputsTab(appTemplate)
  /\ previewTab = NoOp /\ loads = <<>> /\ exportTab = NoOp
  /\ uiLog = NoLog
  /\ IdleMap /\ IdleRen /\ IdleOrch

Mounted == outputsTab # Unmounted

\* The effect of DataTab that runs on mount and whenever the template or the
\* detected tables change: table configs whose table is not among the detected
\* ones are dropped from the template, once any table is detected
OrphanCleanUp(t, tables) ==
  IF t # NoTemplate /\ Len(tables) > 0
  THEN LET currentTableNames == {tables[i] : i \in 1..Len(tables)}
           updatedTables == SelectSeq(t.tables.items,
                                      LAMBDA config : config.name \in currentTableNames)
       IN IF Len(updatedTables) # Len(t.tables.items)
          THEN [t EXCEPT !.tables = Present(updatedTables)]
          ELSE t
  ELSE t

\* handleTabSelect: App renders the selected tab's component only, so the
\* component of the tab left is unmounted (its timers cleared by the effect
\* clean-up, its state dropped) and the one selected is mounted
SelectTab ==
  /\ \E tab \in VisitedTabs \ {selectedTab} :
       /\ selectedTab' = tab
       /\ outputsTab' = IF tab = "outputs" THEN MountOutputsTab(appTemplate) ELSE Unmounted
       /\ appTemplate' = IF tab = "data" THEN OrphanCleanUp(appTemplate, appTables)
                         ELSE appTemplate
       /\ uiLog' = Log("select", uiLog.unsaved, Null)
  /\ UNCHANGED <<appTables, previewTab, loads, exportTab,
                 mapVars, renVars, orchVars>>

\* handleAddOutput
HandleAddOutput ==
  /\ Mounted /\ appTemplate # NoTemplate
  /\ Len(outputsTab.localOutputs) < MaxLocal
  /\ outputsTab.nextOutputNumber <= MaxNumber
  /\ LET n == outputsTab.nextOutputNumber
         newKey == OutputKey(n)
         updated == PutEntry(outputsTab.localOutputs, newKey, NewOutput(n, appTables))
     IN /\ outputsTab' = [outputsTab EXCEPT !.localOutputs = updated,
                                            !.nextOutputNumber = n + 1,
                                            !.timer = TRUE]
        /\ uiLog' = Log("add", updated # appTemplate.outputs.items,
                        IF uiLog.tracked = Str(newKey) THEN Null ELSE uiLog.tracked)
  /\ UNCHANGED <<appTemplate, appTables, selectedTab, previewTab, loads, exportTab,
                 mapVars, renVars, orchVars>>

\* OutputsTab.handleKeyChange, as OutputEditor calls it with its own key
HandleKeyChange ==
  /\ Mounted /\ appTemplate # NoTemplate
  /\ \E oldKey \in KeySet(outputsTab.localOutputs), newKey \in RenameTargets :
       IF newKey = oldKey \/ newKey \in KeySet(outputsTab.localOutputs)
       THEN /\ uiLog' = Log("rename", uiLog.unsaved, uiLog.tracked)
            /\ UNCHANGED outputsTab
       ELSE LET updated == RenameEntry(outputsTab.localOutputs, oldKey, newKey)
            IN /\ outputsTab' = [outputsTab EXCEPT !.localOutputs = updated,
                                                   !.timer = TRUE]
               /\ uiLog' = Log("rename", updated # appTemplate.outputs.items,
                               IF uiLog.tracked = Str(oldKey) THEN Str(newKey)
                               ELSE uiLog.tracked)
  /\ UNCHANGED <<appTemplate, appTables, selectedTab, previewTab, loads, exportTab,
                 mapVars, renVars, orchVars>>

\* handleOutputChange, as OutputEditor calls it for a Filename or Template edit
HandleOutputChange ==
  /\ Mounted /\ appTemplate # NoTemplate
  /\ \E i \in 1..Len(outputsTab.localOutputs) :
       \E output \in EditedOutputs(outputsTab.localOutputs[i].output) :
         LET key == outputsTab.localOutputs[i].name
             updated == PutEntry(outputsTab.localOutputs, key, output)
         IN /\ outputsTab' = [outputsTab EXCEPT !.localOutputs = updated,
                                                !.timer = TRUE]
            /\ uiLog' = Log("edit", updated # appTemplate.outputs.items, uiLog.tracked)
  /\ UNCHANGED <<appTemplate, appTables, selectedTab, previewTab, loads, exportTab,
                 mapVars, renVars, orchVars>>

\* A handleDelete that takes every request
NeverLastOutput(outputs) == FALSE

\* Object.keys(localOutputs).length === 1
IsLastOutput(outputs) == Len(outputs) = 1

\* handleDelete
HandleDelete ==
  /\ Mounted /\ appTemplate # NoTemplate
  /\ \E key \in KeySet(outputsTab.localOutputs) :
       IF IsLastOutput(outputsTab.localOutputs)
       THEN /\ outputsTab' = [outputsTab EXCEPT !.deleteError = LastOutputError]
            /\ uiLog' = Log("delete", uiLog.unsaved, uiLog.tracked)
       ELSE /\ outputsTab' = [outputsTab EXCEPT !.deleteError = Null,
                                                !.pendingDeleteKey = Str(key)]
            /\ uiLog' = Log("delete", uiLog.unsaved, Str(key))
  /\ UNCHANGED <<appTemplate, appTables, selectedTab, previewTab, loads, exportTab,
                 mapVars, renVars, orchVars>>

\* confirmDelete: the Delete button of the confirmation bar
ConfirmDelete ==
  /\ Mounted /\ appTemplate # NoTemplate
  /\ outputsTab.pendingDeleteKey # Null
  /\ LET updated == DeleteEntry(outputsTab.localOutputs, outputsTab.pendingDeleteKey.v)
     IN /\ outputsTab' = [outputsTab EXCEPT !.localOutputs = updated,
                                            !.pendingDeleteKey = Null,
                                            !.deleteError = Null,
                                            !.timer = TRUE]
        /\ uiLog' = Log("confirm",
                        updated # appTemplate.outputs.items, uiLog.tracked)
  /\ UNCHANGED <<appTemplate, appTables, selectedTab, previewTab, loads, exportTab,
                 mapVars, renVars, orchVars>>

\* cancelDelete: the Cancel button of the confirmation bar
CancelDelete ==
  /\ Mounted /\ appTemplate # NoTemplate
  /\ outputsTab.pendingDeleteKey # Null
  /\ outputsTab' = [outputsTab EXCEPT !.pendingDeleteKey = Null]
  /\ uiLog' = Log("cancel", uiLog.unsaved, Null)
  /\ UNCHANGED <<appTemplate, appTables, selectedTab, previewTab, loads, exportTab,
                 mapVars, renVars, orchVars>>

\* The debounce timer fires 500 ms after the last change of localOutputs or of
\* the template: outputs that differ from the template's are written to the
\* App, whose new template the component syncs from, arming the timer again
DebounceFire ==
  /\ Mounted /\ appTemplate # NoTemplate
  /\ outputsTab.timer
  /\ IF outputsTab.localOutputs # appTemplate.outputs.items
     THEN /\ appTemplate' = [appTemplate EXCEPT !.outputs = Present(outputsTab.localOutputs)]
          /\ outputsTab' = [outputsTab EXCEPT
                              !.nextOutputNumber = NextNumber(outputsTab.localOutputs),
                              !.timer = TRUE]
     ELSE /\ outputsTab' = [outputsTab EXCEPT !.timer = FALSE]
          /\ UNCHANGED appTemplate
  /\ uiLog' = Log("debounce",
                  uiLog.unsaved /\ outputsTab.localOutputs = appTemplate.outputs.items,
                  uiLog.tracked)
  /\ UNCHANGED <<appTables, selectedTab, previewTab, loads, exportTab,
                 mapVars, renVars, orchVars>>

NextOutputs ==
  \/ SelectTab
  \/ HandleAddOutput
  \/ HandleKeyChange
  \/ HandleOutputChange
  \/ HandleDelete
  \/ ConfirmDelete
  \/ CancelDelete
  \/ DebounceFire

SpecOutputs == InitOutputs /\ [][NextOutputs]_vars

\* The timer the debounce effect set fires unless the effect's clean-up clears it
SpecOutputsFair == SpecOutputs /\ WF_vars(DebounceFire)

----------------------------------------------------------------------------
(* Claims about the Outputs tab *)

\* C23: whatever the user changed in the local outputs of the Outputs tab is
\* eventually in the App's template, whatever the user does next, a switch to
\* another tab before the timer fires included.
C23_EditsReachTemplate == uiLog.unsaved ~> ~uiLog.unsaved

\* C27: Add Output adds one entry to the local outputs and leaves every entry
\* that was there as it was.
C27_AddCreatesNewEntry ==
  [][uiLog'.op = "add" =>
       LET old == outputsTab.localOutputs
           new == outputsTab'.localOutputs
       IN /\ Len(new) = Len(old) + 1
          /\ \A i \in 1..Len(old) : \E j \in 1..Len(new) : new[j] = old[i]]_vars

\* C29: the local outputs and the template's outputs never become empty, and a
\* delete request on the only output sets the delete error and nothing else.
C29_NeverWithoutOutputs ==
  /\ [](Mounted => /\ Len(outputsTab.localOutputs) >= 1
                    /\ Len(appTemplate.outputs.items) >= 1)
  /\ [][(uiLog'.op = "delete" /\ Len(outputsTab.localOutputs) = 1) =>
          /\ outputsTab' = [outputsTab EXCEPT !.deleteError = LastOutputError]
          /\ appTemplate' = appTemplate]_vars

\* Of two outputs one was deleted; the delete request on the one left was refused
C29_Witness ==
  /\ Mounted /\ uiLog.op = "delete"
  /\ Len(outputsTab.localOutputs) = 1
  /\ outputsTab.deleteError = LastOutputError
  /\ outputsTab.pendingDeleteKey = Null
  /\ Len(appTemplate.outputs.items) = 1

\* C30: confirmDelete removes the output whose deletion was requested, wherever
\* it is stored by then, and no other output.
C30_ConfirmRemovesRequested ==
  [][uiLog'.op = "confirm" =>
       outputsTab'.localOutputs =
         IF uiLog.tracked = Null THEN outputsTab.localOutputs
         ELSE DeleteEntry(outputsTab.localOutputs, uiLog.tracked.v)]_vars

----------------------------------------------------------------------------
(* NunjucksRenderer.ts: the xmlEscape filter *)

MaxLen == 3

\* s.replace(/ch/g, entity) for a one-character pattern
RECURSIVE ReplaceAll(_, _, _)
ReplaceAll(s, ch, entity) ==
  IF Len(s) = 0 THEN ""
  ELSE (IF SubSeq(s, 1, 1) = ch THEN entity ELSE SubSeq(s, 1, 1))
       \o ReplaceAll(SubSeq(s, 2, Len(s)), ch, entity)

\* The substitutions with the ampersand last
xmlEscapeAmpersandLast(value) ==
  IF value = Null \/ value = Undefined THEN ""
  ELSE ReplaceAll(ReplaceAll(ReplaceAll(ReplaceAll(ReplaceAll(String(value),
         "<", "&lt;"), ">", "&gt;"), "\"", "&quot;"), "'", "&apos;"), "&", "&amp;")

xmlEscape(value) ==
  IF value = Null \/ value = Undefined THEN ""
  ELSE ReplaceAll(ReplaceAll(ReplaceAll(ReplaceAll(ReplaceAll(String(value),
         "&", "&amp;"), "<", "&lt;"), ">", "&gt;"), "\"", "&quot;"), "'", "&apos;")

\* The values the filter is applied to: null, undefined, a number, a boolean,
\* and the strings made of up to MaxLen of these pieces
XmlPieces == {"&", "<", ">", "\"", "'", "a", "amp;", "lt;"}
RECURSIVE Concat(_)
Concat(pieces) == IF Len(pieces) = 0 THEN "" ELSE Head(pieces) \o Concat(Tail(pieces))
XmlInputs ==
  {Null, Undefined, Num("7"), Bool("true")}
  \cup {Str(Concat(p)) : p \in SeqsUpTo(XmlPieces, MaxLen)}

\* A template applies the filter to a value
XmlEscape ==
  /\ rcall.op = "none"
  /\ \E value \in XmlInputs :
       /\ rcall' = [op |-> "xmlEscape", value |-> value]
       /\ rret' = Return(xmlEscape(value), <<>>)
  /\ UNCHANGED <<rprev, mapVars, orchVars, uiVars>>

NextXml == XmlEscape \/ RendererReturn

SpecXml == InitRen /\ [][NextXml]_vars

\* The five named entities and the characters they stand for
Entities ==
  {[e |-> "&amp;", c |-> "&"], [e |-> "&lt;", c |-> "<"], [e |-> "&gt;", c |-> ">"],
   [e |-> "&quot;", c |-> "\""], [e |-> "&apos;", c |-> "'"]}

\* The entities that start at position i of s
EntitiesAt(s, i) ==
  {x \in Entities : i + Len(x.e) - 1 <= Len(s) /\ SubSeq(s, i, i + Len(x.e) - 1) = x.e}

\* s read from position i with every entity taken for its character
RECURSIVE Decode(_, _)
Decode(s, i) ==
  IF i > Len(s) THEN ""
  ELSE IF EntitiesAt(s, i) # {}
  THEN LET x == CHOOSE y \in EntitiesAt(s, i) : TRUE
       IN x.c \o Decode(s, i + Len(x.e))
  ELSE SubSeq(s, i, i) \o Decode(s, i + 1)

\* C24: xmlEscape gives "" for null and undefined; otherwise its result holds
\* none of < > " ' raw, every & in it starts one of the five entities, and
\* reading each entity as its character gives back the stringified input, so
\* each entity stands for one input character and none was escaped twice.
C24_XmlEscape ==
  rcall.op = "xmlEscape" =>
    LET out == rret.value
    IN IF rcall.value \in {Null, Undefined} THEN out = ""
       ELSE /\ \A i \in 1..Len(out) : SubSeq(out, i, i) \notin {"<", ">", "\"", "'"}
            /\ \A i \in 1..Len(out) : SubSeq(out, i, i) = "&" => EntitiesAt(out, i) # {}
            /\ Decode(out, 1) = String(rcall.value)

\* The input holds a character to escape and text that reads like an entity
C24_Witness ==
  /\ rcall.op = "xmlEscape"
  /\ rcall.value = Str("<&amp;")
  /\ rret.value = "&lt;&amp;amp;"

\* The filter applied to null
C24_WitnessNull ==
  /\ rcall.op = "xmlEscape" /\ rcall.value = Null /\ rret.value = ""

----------------------------------------------------------------------------
(* PreviewTab *)

MaxLoads == 3

\* A template that declares no tables and no globals, with three outputs, the
\* last of which does not render
PreviewTemplate ==
  AppTemplate(<<>>, <<OutputEntry("k1", <<Lit("a.json")>>, <<Lit("one")>>),
                      OutputEntry("k2", <<Lit("b.csv")>>, <<Lit("two")>>),
                      OutputEntry("k3", <<Lit("c.txt")>>, <<Unclosed>>)>>)

\* dataOrchestrator.previewOutput(template, outputName) for a template without
\* tables and globals: buildContext reads nothing
previewOutput(t, outputName, now) ==
  LET output == OutputOf(t.outputs.items, outputName)
  IN IF ~Truthy(output) THEN Return(Null, <<>>)
     ELSE renderMember(output, [globals |-> EmptyObject, data |-> EmptyObject,
                                currentdatetime |-> Timestamp(now)])

\* loadPreview up to its await: setLoading(true), setError(null), and the call
\* of previewOutput with the output selected when loadPreview was created
LoadPreview(tab, selected) ==
  /\ previewTab' = [tab EXCEPT !.selectedOutput = selected, !.loading = TRUE,
                               !.error = Null]
  /\ loads' = Append(loads, [output |-> selected])

\* The component once mounted: the first output is selected by the effect of
\* lines 84-88, and the effect of lines 108-112 has started its load
InitPreview ==
  /\ appTemplate = PreviewTemplate
  /\ appTables = <<>>
  /\ selectedTab = "preview"
  /\ outputsTab = Unmounted
  /\ previewTab = [selectedOutput |-> KeysOf(appTemplate.outputs.items)[1],
                   preview |-> Null, loading |-> TRUE, error |-> Null]
  /\ loads = <<[output |-> KeysOf(appTemplate.outputs.items)[1]]>>
  /\ exportTab = NoOp
  /\ uiLog = NoLog
  /\ IdleMap /\ IdleRen /\ IdleOrch

\* The user picks another output in the dropdown: setSelectedOutput, then the
\* effect that loads the preview when the selection changes
SelectOutput ==
  /\ Len(loads) < MaxLoads
  /\ \E name \in KeySet(appTemplate.outputs.items) \ {previewTab.selectedOutput} :
       LoadPreview(previewTab, name)
  /\ UNCHANGED <<appTemplate, appTables, selectedTab, outputsTab, exportTab, uiLog,
                 mapVars, renVars, orchVars>>

\* The Refresh button, disabled while loading
Refresh ==
  /\ Len(loads) < MaxLoads
  /\ ~previewTab.loading /\ previewTab.selectedOutput # ""
  /\ LoadPreview(previewTab, previewTab.selectedOutput)
  /\ UNCHANGED <<appTemplate, appTables, selectedTab, outputsTab, exportTab, uiLog,
                 mapVars, renVars, orchVars>>

\* loadPreview after its await: one of the calls in flight settles
PreviewSettled ==
  /\ \E i \in 1..Len(loads) :
       LET result == previewOutput(appTemplate, loads[i].output, clock)
       IN /\ previewTab' =
               IF result.threw
               THEN [previewTab EXCEPT !.error = Str(result.message), !.preview = Null,
                                       !.loading = FALSE]
               ELSE [previewTab EXCEPT !.preview = result.value, !.loading = FALSE]
          /\ loads' = [j \in 1..(Len(loads) - 1) |-> IF j < i THEN loads[j] ELSE loads[j + 1]]
  /\ UNCHANGED <<appTemplate, appTables, selectedTab, outputsTab, exportTab, uiLog,
                 mapVars, renVars, orchVars>>

NextPreview == SelectOutput \/ Refresh \/ PreviewSettled

SpecPreview == InitPreview /\ [][NextPreview]_vars

\* C25: with no load in flight the preview shown is the rendering of the
\* output selected, and the loading flag is set exactly while a load is in
\* flight.
C25_NoStalePreview ==
  /\ (loads = <<>> /\ previewTab.preview # Null) =>
       previewTab.preview = previewOutput(appTemplate, previewTab.selectedOutput, clock).value
  /\ previewTab.loading <=> loads # <<>>

-----------------------------------------------------------------------------
(* ExportTab: handleGenerate *)

\* useState: every output of the template selected, nothing generated yet
MountExportTab(t) ==
  [selectedOutputs |-> {t.outputs[i].name : i \in 1..Len(t.outputs)},
   loading |-> FALSE, error |-> Null, results |-> Null,
   validation |-> Null, delivered |-> Null, epc |-> "idle"]

InitExport ==
  /\ tpl \in Templates
  /\ host \in Hosts
  /\ clock = 0
  /\ ocall = NoOp
  /\ pc = "idle"
  /\ step = 0
  /\ cglobals = EmptyObject
  /\ cdata = EmptyObject
  /\ builds = 0
  /\ oret = NoOp
  /\ reads = <<>>
  /\ prev = NoOp
  /\ IdleMap
  /\ IdleRen
  /\ appTemplate = NoOp
  /\ appTables = <<>>
  /\ selectedTab = "export"
  /\ outputsTab = NoOp
  /\ previewTab = NoOp
  /\ loads = <<>>
  /\ exportTab = MountExportTab(tpl)
  /\ uiLog = NoOp

\* errors.filter((e) => e.severity !== "warning").map((e) => e.message)
ErrorMessages(errors) ==
  LET kept == SelectSeq(errors, LAMBDA e : e.severity # "warning")
  IN [i \in 1..Len(kept) |-> kept[i].message]

\* allOutputs.filter((o) => selectedOutputs.has(o.name))
FilterSelected(allOutputs, selected) == SelectSeq(allOutputs, LAMBDA o : o.name \in selected)

\* handleGenerate up to its first await: the button is disabled while loading
HandleGenerate ==
  /\ exportTab # NoOp
  /\ ~exportTab.loading
  /\ exportTab.selectedOutputs # {}
  /\ exportTab' = [exportTab EXCEPT !.loading = TRUE, !.error = Null, !.results = Null,
                                    !.validation = Null, !.delivered = Null,
                                    !.epc = "validating"]
  /\ ocall' = [op |-> "validateDataAvailability", key |-> ""]
  /\ oret' = NoOp
  /\ reads' = <<>>
  /\ pc' = "getTables"
  /\ step' = 0
  /\ builds' = 0
  /\ UNCHANGED <<tpl, host, clock, cglobals, cdata, prev, mapVars, renVars,
                 appTemplate, appTables, selectedTab, outputsTab, previewTab, loads, uiLog>>

\* After await validateDataAvailability: stop on an error-severity record, else
\* go on to generateOutputs up to its first await
ExportValidated ==
  /\ exportTab # NoOp
  /\ exportTab.epc = "validating"
  /\ pc = "done"
  /\ IF oret.threw
     THEN /\ exportTab' = [exportTab EXCEPT !.error = Str(oret.message), !.loading = FALSE,
                                            !.epc = "idle"]
          /\ UNCHANGED <<ocall, pc, step, cglobals, cdata, builds, oret, reads>>
     ELSE LET validation == oret.value
              errorMessages == ErrorMessages(validation.errors)
          IN IF ~validation.valid /\ Len(errorMessages) > 0
             THEN /\ exportTab' = [exportTab EXCEPT !.error = [t |-> "Joined", v |-> errorMessages],
                                                    !.loading = FALSE,
                                                    !.validation = validation,
                                                    !.epc = "idle"]
                  /\ UNCHANGED <<ocall, pc, step, cglobals, cdata, builds, oret, reads>>
             ELSE /\ exportTab' = [exportTab EXCEPT !.validation = validation,
                                                    !.epc = "generating"]
                  /\ ocall' = [op |-> "generateOutputs", key |-> ""]
                  /\ BeginBuild
  /\ UNCHANGED <<tpl, host, clock, prev, mapVars, renVars,
                 appTemplate, appTables, selectedTab, outputsTab, previewTab, loads, uiLog>>

\* After await generateOutputs: the selected outputs go to downloadOutputs
ExportGenerated ==
  /\ exportTab # NoOp
  /\ exportTab.epc = "generating"
  /\ pc = "done"
  /\ IF oret.threw
     THEN exportTab' = [exportTab EXCEPT !.error = Str(oret.message), !.loading = FALSE,
                                         !.epc = "idle"]
     ELSE LET filteredOutputs == FilterSelected(oret.value, exportTab.selectedOutputs)
              download == downloadOutputs(filteredOutputs, Str(tpl.metadata.name), clock)
          IN IF download.threw
             THEN exportTab' = [exportTab EXCEPT !.error = Str(download.message),
                                                 !.loading = FALSE, !.epc = "idle"]
             ELSE exportTab' = [exportTab EXCEPT !.results = filteredOutputs,
                                                 !.delivered = download.value,
                                                 !.loading = FALSE, !.epc = "downloaded"]
  /\ UNCHANGED <<tpl, host, clock, ocall, pc, step, cglobals, cdata, builds, oret, reads, prev,
                 mapVars, renVars,
                 appTemplate, appTables, selectedTab, outputsTab, previewTab, loads, uiLog>>

NextExport ==
  \/ HandleGenerate
  \/ GetTables
  \/ GetNamedRanges
  \/ ExportValidated
  \/ HostRead
  \/ FinishCall
  \/ ExportGenerated
  \/ HostChange

SpecExport == InitExport /\ [][NextExport]_vars

\* The table reads of the build in which the table was not in the workbook
FallbackReads ==
  {i \in 1..Len(reads) : reads[i].kind = "table" /\ reads[i].seen.tables = EmptyObject}

\* C26: when handleGenerate has reached downloadOutputs, every declared table
\* was in the workbook when its rows were read; and generateOutputs and
\* downloadOutputs are only reached after a validation without an
\* error-severity record.
C26_NoExportFromMissingTable ==
  /\ (exportTab.epc = "downloaded") => FallbackReads = {}
  /\ (exportTab.epc \in {"generating", "downloaded"}) =>
       NoErrorSeverity(exportTab.validation.errors)

\* The second half of C26 alone: no generation or download after an
\* error-severity record
ExportOnlyAfterCleanValidation ==
  (exportTab.epc \in {"generating", "downloaded"}) =>
    NoErrorSeverity(exportTab.validation.errors)

-----------------------------------------------------------------------------
(* App, TemplateTab, DataTab: the template the App holds *)

\* The tables getTables() reports to loadData, and the named ranges listed
DetectedTables == {<<>>, <<"T1">>, <<"T1", "T2">>}
DetectedRanges == {"project"}

\* What is typed into the JSON editor or read from an imported file: nothing,
\* text that is no JSON, or the JSON text of a template
BlankText == [kind |-> "blank", value |-> Null]
MalformedText == [kind |-> "malformed", value |-> Null]
JsonText(t) == [kind |-> "json", value |-> t]
TemplateTexts ==
  {BlankText, MalformedText,
   JsonText(AppTemplate(<<"T1">>, <<OutputEntry("main", <<Lit("m.json")>>, <<Lit("m")>>)>>)),
   JsonText(AppTemplate(<<"T2">>, <<OutputEntry("main", <<Lit("m.json")>>, <<Lit("m")>>)>>)),
   JsonText(AppTemplate(<<>>, <<OutputEntry("main", <<Lit("m.json")>>, <<Lit("m")>>)>>)),
   JsonText(AppTemplate(<<"T1">>, <<OutputEntry("main", <<>>, <<Lit("m")>>)>>))}

\* JSON.parse(text): the value, or a SyntaxError
JsonParse(text) ==
  IF text.kind = "json" THEN Return(text.value, <<>>)
  ELSE Throw("Unexpected end of JSON input", <<>>)

\* The template handleCreateNew builds: one bare config per detected table
NewTemplate(tables) ==
  [view |-> TRUE,
   metadata |-> [defined |-> TRUE, name |-> Str("New Template"), version |-> Str("1.0.0")],
   tables |-> Present([i \in 1..Len(tables) |-> NamedTable(tables[i])]),
   globals |-> GlobalConfigs(<<>>),
   outputs |-> Present(<<OutputEntry("output", <<Lit("output.json")>>,
                                     <<Lit("{% for item in data.myTable %}")>>)>>)]

\* The App as it starts: no template, no tables, the Data tab shown
InitApp ==
  /\ appTemplate = NoTemplate
  /\ appTables = <<>>
  /\ selectedTab = "data"
  /\ outputsTab = Unmounted
  /\ previewTab = NoOp /\ loads = <<>> /\ exportTab = NoOp
  /\ uiLog = NoLog
  /\ IdleMap /\ IdleRen /\ IdleOrch

\* loadData after its await (on mount of the Data tab, or Refresh): the
\* detected tables go to the App, and the clean-up effect runs on them
LoadData ==
  /\ selectedTab = "data"
  /\ \E tablesResult \in DetectedTables :
       /\ appTables' = tablesResult
       /\ appTemplate' = OrphanCleanUp(appTemplate, tablesResult)
  /\ UNCHANGED <<selectedTab, outputsTab, previewTab, loads, exportTab, uiLog,
                 mapVars, renVars, orchVars>>

\* handleTableCheckboxChange(table, checked)
TableChecked(t, name, checked) ==
  IF checked
  THEN IF \E i \in 1..Len(t.tables.items) : t.tables.items[i].name = name
       THEN t
       ELSE [t EXCEPT !.tables = Present(Append(t.tables.items, NamedTable(name)))]
  ELSE [t EXCEPT !.tables =
          Present(SelectSeq(t.tables.items, LAMBDA config : config.name # name))]

HandleTableCheckboxChange ==
  /\ selectedTab = "data"
  /\ appTemplate # NoTemplate
  /\ \E i \in 1..Len(appTables), checked \in BOOLEAN :
       appTemplate' = OrphanCleanUp(TableChecked(appTemplate, appTables[i], checked), appTables)
  /\ UNCHANGED <<appTables, selectedTab, outputsTab, previewTab, loads, exportTab, uiLog,
                 mapVars, renVars, orchVars>>

\* handleRangeCheckboxChange(range, checked): a config without a default value
RangeChecked(t, name, checked) ==
  LET globals == IF t.globals.defined THEN t.globals.items ELSE <<>>
  IN IF checked
     THEN IF \E i \in 1..Len(globals) : globals[i].name = name
          THEN [t EXCEPT !.globals = GlobalConfigs(globals)]
          ELSE [t EXCEPT !.globals =
                  GlobalConfigs(Append(globals, [name |-> name, type |-> "string",
                                                 defaultValue |-> Undefined]))]
     ELSE [t EXCEPT !.globals =
             GlobalConfigs(SelectSeq(globals, LAMBDA config : config.name # name))]

HandleRangeCheckboxChange ==
  /\ selectedTab = "data"
  /\ appTemplate # NoTemplate
  /\ \E range \in DetectedRanges, checked \in BOOLEAN :
       appTemplate' = OrphanCleanUp(RangeChecked(appTemplate, range, checked), appTables)
  /\ UNCHANGED <<appTables, selectedTab, outputsTab, previewTab, loads, exportTab, uiLog,
                 mapVars, renVars, orchVars>>

\* handleTextChange(text): the parsed template if it is valid, else null
HandleTextChange ==
  /\ selectedTab = "template"
  /\ \E text \in TemplateTexts :
       LET parsed == JsonParse(text)
       IN appTemplate' = IF text.kind # "blank" /\ ~parsed.threw
                            /\ validateStructure(parsed.value).valid
                         THEN parsed.value
                         ELSE NoTemplate
  /\ UNCHANGED <<appTables, selectedTab, outputsTab, previewTab, loads, exportTab, uiLog,
                 mapVars, renVars, orchVars>>

\* handleFileChange, reader.onload: a file that does not parse or validate
\* leaves the template as it is
HandleFileChange ==
  /\ selectedTab = "template"
  /\ \E text \in TemplateTexts :
       LET parsed == JsonParse(text)
       IN appTemplate' = IF ~parsed.threw /\ validateStructure(parsed.value).valid
                         THEN parsed.value
                         ELSE appTemplate
  /\ UNCHANGED <<appTables, selectedTab, outputsTab, previewTab, loads, exportTab, uiLog,
                 mapVars, renVars, orchVars>>

\* handleCreateNew: the new template goes to the App as built
HandleCreateNew ==
  /\ selectedTab = "template"
  /\ appTemplate' = NewTemplate(appTables)
  /\ UNCHANGED <<appTables, selectedTab, outputsTab, previewTab, loads, exportTab, uiLog,
                 mapVars, renVars, orchVars>>

NextApp ==
  \/ SelectTab
  \/ LoadData
  \/ HandleTableCheckboxChange
  \/ HandleRangeCheckboxChange
  \/ HandleTextChange
  \/ HandleFileChange
  \/ HandleCreateNew
  \/ HandleOutputChange
  \/ DebounceFire

SpecApp == InitApp /\ [][NextApp]_vars

\* C28: a template the App holds, which the Template tab reports as a valid
\* template, passes validateTemplate.
C28_HeldTemplateIsValid ==
  appTemplate # NoTemplate => validateStructure(appTemplate).valid

====
